---------------------------- MODULE Spec2Model ----------------------------
(***************************************************************************)
(* Model of the sandboxed code-execution tool ExecutePythonCode            *)
(* (frappe_assistant_core/plugins/data_science/tools/run_python_code.py).  *)
(*                                                                         *)
(* Text.  A Python string is a sequence of tokens.  A token is an atomic   *)
(* piece of text: an identifier or keyword ("import", "frappe"), one       *)
(* punctuation character (".", "(", "'"), one whitespace character (" ",   *)
(* "\n") or one code point (SURROGATE).  str.split, str.strip,             *)
(* str.startswith, str.replace, str.join and the regular expressions of    *)
(* the source are computed over these sequences.  Identifiers are atomic:  *)
(* no identifier of the scripts below has a scanned word as a proper       *)
(* substring.                                                              *)
(***************************************************************************)
EXTENDS Naturals, Sequences, FiniteSets, TLC

(***************************************************************************)
(* Bounds of the model.                                                    *)
(***************************************************************************)
\* the longest script, in lines
MaxLines == 2
\* the documents one doctype of the site can hold
MaxDocs == 3
\* the calls of adapter methods in one behaviour
MaxCalls == 3
\* the seconds the clock of the site runs
MaxTime == 2
\* the requests the site handles at the same time
MaxRequests == 2

(***************************************************************************)
(* String primitives.                                                      *)
(***************************************************************************)
NL == "\n"
SP == " "
\* one code point of the UTF-16 surrogate range U+D800..U+DFFF
SURROGATE == "<U+D800>"

\* str.isspace of one character
IsSpace(t) == t \in {SP, NL, "\t"}

\* s.startswith(p)
StartsWith(s, p) ==
    /\ Len(p) <= Len(s)
    /\ SubSeq(s, 1, Len(p)) = p

\* s[i:] with a 1-based i
From(s, i) == SubSeq(s, i, Len(s))

RECURSIVE LStrip(_)
LStrip(s) ==
    IF s # <<>> /\ IsSpace(Head(s)) THEN LStrip(Tail(s)) ELSE s

RECURSIVE RStrip(_)
RStrip(s) ==
    IF s # <<>> /\ IsSpace(s[Len(s)]) THEN RStrip(SubSeq(s, 1, Len(s) - 1)) ELSE s

\* str.strip()
Strip(s) == RStrip(LStrip(s))

\* s.split(sep) for a one-token separator: always at least one piece
RECURSIVE Split(_, _)
Split(s, sep) ==
    IF \A i \in 1..Len(s) : s[i] # sep
    THEN <<s>>
    ELSE LET i == CHOOSE k \in 1..Len(s) :
                      /\ s[k] = sep
                      /\ \A j \in 1..(k - 1) : s[j] # sep
         IN  <<SubSeq(s, 1, i - 1)>> \o Split(From(s, i + 1), sep)

\* sep.join(parts)
RECURSIVE Join(_, _)
Join(parts, sep) ==
    IF parts = <<>> THEN <<>>
    ELSE IF Len(parts) = 1 THEN parts[1]
    ELSE parts[1] \o <<sep>> \o Join(Tail(parts), sep)

\* s.replace(old, new), old not empty: every non-overlapping occurrence, left to right
RECURSIVE Replace(_, _, _)
Replace(s, old, new) ==
    IF Len(s) < Len(old) THEN s
    ELSE IF StartsWith(s, old) THEN new \o Replace(From(s, Len(old) + 1), old, new)
    ELSE <<Head(s)>> \o Replace(Tail(s), old, new)

\* the first index >= i of s that holds no whitespace (Len(s) + 1 if none): regex \s*
RECURSIVE SkipSpace(_, _)
SkipSpace(s, i) ==
    IF i <= Len(s) /\ IsSpace(s[i]) THEN SkipSpace(s, i + 1) ELSE i

(***************************************************************************)
(* Import Mediator: _check_and_handle_imports.                             *)
(***************************************************************************)
Imp(m) == <<"import", SP, m>>
ImpAs(m, a) == <<"import", SP, m, SP, "as", SP, a>>
FromImp(m) == <<"from", SP, m, SP, "import">>
\* a comment holding one piece of text
Cmt(text) == <<"#", SP, text>>

\* exact matches, in the order of the dict literal: <<import statement, its replacement>>
safe_replacements ==
    << <<ImpAs("pandas", "pd"), Cmt("pandas is pre-loaded as pd")>>,
       <<ImpAs("numpy", "np"), Cmt("numpy is pre-loaded as np")>>,
       <<<<"import", SP, "matplotlib", ".", "pyplot", SP, "as", SP, "plt">>,
         Cmt("matplotlib is pre-loaded as plt")>>,
       <<ImpAs("seaborn", "sns"), Cmt("seaborn is pre-loaded as sns")>>,
       <<Imp("frappe"), Cmt("frappe is pre-loaded")>>,
       <<Imp("math"), Cmt("math is pre-loaded")>>,
       <<Imp("datetime"), Cmt("datetime is pre-loaded")>>,
       <<Imp("json"), Cmt("json is pre-loaded")>>,
       <<Imp("re"), Cmt("re is pre-loaded")>>,
       <<Imp("random"), Cmt("random is pre-loaded")>>,
       <<Imp("statistics"), Cmt("statistics is pre-loaded")>>,
       <<Imp("decimal"), Cmt("decimal is pre-loaded")>>,
       <<Imp("fractions"), Cmt("fractions is pre-loaded")>>,
       <<Imp("collections"), Cmt("collections allowed - Counter, defaultdict, etc.")>>,
       <<Imp("itertools"), Cmt("itertools allowed - combinatoric iterators")>>,
       <<Imp("functools"), Cmt("functools allowed - higher-order functions")>>,
       <<Imp("operator"), Cmt("operator allowed - standard operators")>>,
       <<Imp("copy"), Cmt("copy allowed - shallow and deep copy")>>,
       <<Imp("string"), Cmt("string allowed - string operations")>> >>

\* prefix matches, in the order of the dict literal: <<prefix, its replacement>>
safe_prefixes ==
    << <<FromImp("datetime"), Cmt("datetime is pre-loaded")>>,
       <<FromImp("math"), Cmt("math is pre-loaded")>>,
       <<FromImp("collections"), Cmt("collections allowed")>>,
       <<FromImp("itertools"), Cmt("itertools allowed")>>,
       <<FromImp("functools"), Cmt("functools allowed")>>,
       <<FromImp("operator"), Cmt("operator allowed")>> >>

\* stripped_line.startswith("import ") or stripped_line.startswith("from ")
IsImportStatement(stripped_line) ==
    \/ StartsWith(stripped_line, <<"import", SP>>)
    \/ StartsWith(stripped_line, <<"from", SP>>)

\* stripped_line in safe_replacements
InSafeReplacements(stripped_line) ==
    \E k \in 1..Len(safe_replacements) : safe_replacements[k][1] = stripped_line

\* the first prefix of safe_prefixes that stripped_line starts with, 0 if none
FirstSafePrefix(stripped_line) ==
    IF \E k \in 1..Len(safe_prefixes) : StartsWith(stripped_line, safe_prefixes[k][1])
    THEN CHOOSE k \in 1..Len(safe_prefixes) :
             /\ StartsWith(stripped_line, safe_prefixes[k][1])
             /\ \A j \in 1..(k - 1) : ~StartsWith(stripped_line, safe_prefixes[j][1])
    ELSE 0

\* the first loop's body: what one line contributes to processed_lines
ProcessedLine(line) ==
    LET stripped_line == Strip(line)
    IN  IF ~IsImportStatement(stripped_line) THEN line
        ELSE IF InSafeReplacements(stripped_line)
        THEN LET k == CHOOSE k \in 1..Len(safe_replacements) :
                          safe_replacements[k][1] = stripped_line
             IN  Replace(line, stripped_line, safe_replacements[k][2])
        ELSE IF FirstSafePrefix(stripped_line) # 0
        THEN Replace(line, stripped_line, safe_prefixes[FirstSafePrefix(stripped_line)][2])
        ELSE <<"#", SP, "REMOVED:", SP>> \o stripped_line
                 \o <<SP, "- library not available or not needed">>

\* the first loop's import_lines: <<1-based line number, stripped line>> of every import line
RECURSIVE ImportLinesFrom(_, _)
ImportLinesFrom(lines, i) ==
    IF i > Len(lines) THEN <<>>
    ELSE (IF IsImportStatement(Strip(lines[i])) THEN << <<i, Strip(lines[i])>> >> ELSE <<>>)
             \o ImportLinesFrom(lines, i + 1)

\* the second loop's test: is_safe
IsSafe(import_stmt) ==
    \/ InSafeReplacements(import_stmt)
    \/ FirstSafePrefix(import_stmt) # 0

\* the second loop with a break after the first import that is not safe
RECURSIVE ProblematicImports_first_only(_)
ProblematicImports_first_only(import_lines) ==
    IF import_lines = <<>> THEN <<>>
    ELSE IF IsSafe(Head(import_lines)[2]) THEN ProblematicImports_first_only(Tail(import_lines))
    ELSE <<Head(import_lines)>>

\* the second loop: the import lines that are not safe, in order
RECURSIVE ProblematicImports(_)
ProblematicImports(import_lines) ==
    IF import_lines = <<>> THEN <<>>
    ELSE (IF IsSafe(Head(import_lines)[2]) THEN <<>> ELSE <<Head(import_lines)>>)
             \o ProblematicImports(Tail(import_lines))

\* the error text of a rejection: the heading, then "Line n: stmt" for every listed import
ImportErrorMessage(problematic_imports) ==
    [kind |-> "Import statements detected that are not available or needed",
     lines |-> problematic_imports]

_check_and_handle_imports(code) ==
    LET lines == Split(code, NL)
        processed_lines == [i \in 1..Len(lines) |-> ProcessedLine(lines[i])]
        problematic_imports == ProblematicImports(ImportLinesFrom(lines, 1))
    IN  IF problematic_imports # <<>>
        THEN [success |-> FALSE, error |-> ImportErrorMessage(problematic_imports),
              output |-> <<>>, variables |-> <<>>]
        ELSE [success |-> TRUE, code |-> Join(processed_lines, NL)]

(***************************************************************************)
(* _remove_dangerous_imports.                                              *)
(***************************************************************************)
safe_modules ==
    {"math", "statistics", "decimal", "fractions", "cmath", "datetime", "time",
     "calendar", "json", "re", "string", "textwrap", "unicodedata", "collections",
     "itertools", "functools", "operator", "heapq", "bisect", "array", "copy",
     "random", "secrets", "pandas", "numpy", "matplotlib", "seaborn", "plotly",
     "scipy", "pd", "np", "plt", "sns", "go", "px", "stats"}

\* s.split()[0]: the text up to the first whitespace
RECURSIVE FirstWord(_)
FirstWord(s) ==
    IF s = <<>> \/ IsSpace(Head(s)) THEN <<>> ELSE <<Head(s)>> \o FirstWord(Tail(s))

\* stripped_line[7:].split()[0].split(".")[0], resp. stripped_line[5:]...
ModuleOf(stripped_line) ==
    Split(FirstWord(LStrip(From(stripped_line, 3))), ".")[1]

\* whether the loop keeps the line
KeepsLine(line) ==
    \/ ~IsImportStatement(Strip(line))
    \/ /\ Len(ModuleOf(Strip(line))) = 1
       /\ ModuleOf(Strip(line))[1] \in safe_modules

RECURSIVE CleanedLines(_)
CleanedLines(lines) ==
    IF lines = <<>> THEN <<>>
    ELSE (IF KeepsLine(Head(lines)) THEN <<Head(lines)>> ELSE <<>>)
             \o CleanedLines(Tail(lines))

_remove_dangerous_imports(code) == Join(CleanedLines(Split(code, NL)), NL)

(***************************************************************************)
(* Pattern Scanner: _scan_for_dangerous_operations.                        *)
(*                                                                         *)
(* A pattern is a sequence of elements: <<"lit", S>> matches one token     *)
(* whose lower case is in S (re.IGNORECASE), <<"ws">> matches \s*,         *)
(* <<"word">> matches \w+.                                                 *)
(***************************************************************************)
SqlVerbs == {"delete", "drop", "insert", "update", "alter", "create", "truncate", "replace"}

\* str.lower() of one token
Lower(t) ==
    CASE t = "DELETE" -> "delete"
      [] t = "DROP" -> "drop"
      [] t = "INSERT" -> "insert"
      [] t = "UPDATE" -> "update"
      [] t = "ALTER" -> "alter"
      [] t = "CREATE" -> "create"
      [] t = "TRUNCATE" -> "truncate"
      [] t = "REPLACE" -> "replace"
      [] t = "SELECT" -> "select"
      [] t = "FROM" -> "from"
      [] OTHER -> t

Punctuation == {".", "(", ")", "[", "]", "'", "\"", ";", "=", "#", ","}

\* one identifier or number: what \w+ matches
IsWord(t) == ~IsSpace(t) /\ t \notin Punctuation /\ t # SURROGATE

Lit(t) == <<"lit", {t}>>
WS == <<"ws">>
\* name\s*\(
CallOf(name) == <<Lit(name), WS, Lit("(")>>
Quote == <<"lit", {"'", "\""}>>

\* <<pattern, message>>, in the order of the list
dangerous_patterns ==
    << << <<Lit("db"), Lit("."), Lit("sql"), WS, Lit("("), WS, Quote, <<"lit", SqlVerbs>> >>,
          "Dangerous SQL operation detected in db.sql()">>,
       << <<Lit("frappe"), Lit("."), Lit("db"), Lit("."), Lit("sql"), WS, Lit("("), WS,
            Quote, <<"lit", SqlVerbs>> >>,
          "Dangerous SQL operation detected in frappe.db.sql()">>,
       <<CallOf("exec"), "Code execution via exec() not allowed">>,
       <<CallOf("eval"), "Code evaluation via eval() not allowed">>,
       <<CallOf("__import__"), "Dynamic imports via __import__() not allowed">>,
       <<CallOf("compile"), "Code compilation not allowed">>,
       << <<Lit("setattr"), WS, Lit("("), WS, Lit("frappe")>>,
          "Frappe framework modification not allowed">>,
       << <<Lit("delattr"), WS, Lit("("), WS, Lit("frappe")>>,
          "Frappe framework modification not allowed">>,
       << <<Lit("frappe"), Lit("."), Lit("local"), WS, Lit("."), WS, <<"word">>, WS, Lit("=")>>,
          "Frappe local context modification not allowed">>,
       << <<Lit("frappe"), Lit("."), Lit("session"), WS, Lit("."), WS, <<"word">>, WS, Lit("=")>>,
          "Frappe session modification not allowed">>,
       <<CallOf("open"), "File system access not allowed">>,
       <<CallOf("file"), "File system access not allowed">>,
       <<CallOf("input"), "User input not allowed in code execution">>,
       <<CallOf("raw_input"), "User input not allowed in code execution">>,
       << <<Lit("db"), Lit("."), Lit("set_value"), WS, Lit("(")>>,
          "Database write operation db.set_value() not allowed">>,
       << <<Lit("db"), Lit("."), Lit("delete"), WS, Lit("(")>>,
          "Database delete operation not allowed">>,
       << <<Lit("db"), Lit("."), Lit("insert"), WS, Lit("(")>>,
          "Database insert operation not allowed">>,
       << <<Lit("db"), Lit("."), Lit("truncate"), WS, Lit("(")>>,
          "Database truncate operation not allowed">>,
       << <<Lit("urllib")>>, "Network access not allowed">>,
       << <<Lit("requests")>>, "Network access not allowed">>,
       << <<Lit("socket")>>, "Network access not allowed">>,
       << <<Lit("http")>>, "Network access not allowed">> >>

\* whether pattern pat matches s at position i
RECURSIVE MatchAt(_, _, _)
MatchAt(pat, s, i) ==
    IF pat = <<>> THEN TRUE
    ELSE IF Head(pat)[1] = "ws" THEN MatchAt(Tail(pat), s, SkipSpace(s, i))
    ELSE IF i > Len(s) THEN FALSE
    ELSE IF Head(pat)[1] = "word" THEN IsWord(s[i]) /\ MatchAt(Tail(pat), s, i + 1)
    ELSE Lower(s[i]) \in Head(pat)[2] /\ MatchAt(Tail(pat), s, i + 1)

\* re.search(pattern, code, re.IGNORECASE | re.MULTILINE)
Search(pat, s) == \E i \in 1..Len(s) : MatchAt(pat, s, i)

\* the index of the first pattern of the list that is found in code, 0 if none
FirstDangerousPattern(code) ==
    IF \E k \in 1..Len(dangerous_patterns) : Search(dangerous_patterns[k][1], code)
    THEN CHOOSE k \in 1..Len(dangerous_patterns) :
             /\ Search(dangerous_patterns[k][1], code)
             /\ \A j \in 1..(k - 1) : ~Search(dangerous_patterns[j][1], code)
    ELSE 0

\* the two loops after the scan only log warnings
\* the scan with its rejection carrying the execution's identity, as the results of
\* _execute_code_with_timeout do
_scan_for_dangerous_operations_with_execution_info(code) ==
    LET k == FirstDangerousPattern(code)
    IN  IF k # 0
        THEN [success |-> FALSE,
              error |-> <<"Security:", dangerous_patterns[k][2]>>,
              pattern_matched |-> k,
              security_violation |-> TRUE,
              output |-> <<>>, variables |-> <<>>,
              execution_info |-> [execution_id |-> "exec_1"]]
        ELSE [success |-> TRUE]

_scan_for_dangerous_operations(code) ==
    LET k == FirstDangerousPattern(code)
    IN  IF k # 0
        THEN [success |-> FALSE,
              error |-> <<"Security:", dangerous_patterns[k][2]>>,
              pattern_matched |-> k,
              security_violation |-> TRUE,
              output |-> <<>>, variables |-> <<>>]
        ELSE [success |-> TRUE]

(***************************************************************************)
(* Unicode Sanitizer: the second definition of _sanitize_unicode, the one  *)
(* the class keeps.                                                        *)
(***************************************************************************)
IsSurrogate(char) == char = SURROGATE

\* the cleaning loop with the surrogates dropped instead of replaced
CleanedCode_dropping_surrogates(code) == SelectSeq(code, LAMBDA char : ~IsSurrogate(char))

\* cleaned_chars joined
CleanedCode(code) == [i \in 1..Len(code) |-> IF IsSurrogate(code[i]) THEN SP ELSE code[i]]

\* surrogate_count
SurrogateCount(code) == Cardinality({i \in 1..Len(code) : IsSurrogate(code[i])})

\* str.encode("utf-8") raises UnicodeEncodeError exactly on a surrogate code point
EncodesToUtf8(s) == \A i \in 1..Len(s) : ~IsSurrogate(s[i])

_sanitize_unicode(code) ==
    LET cleaned_code == CleanedCode(code)
    IN  IF ~EncodesToUtf8(cleaned_code)
        THEN [success |-> FALSE,
              error |-> <<"Unicode Error: Code contains characters that cannot be encoded in UTF-8">>,
              output |-> <<>>, variables |-> <<>>, unicode_error |-> TRUE]
        ELSE IF SurrogateCount(code) > 0
        THEN [success |-> TRUE, code |-> cleaned_code,
              warning |-> <<"Cleaned", SurrogateCount(code), "surrogate character(s) from code">>]
        ELSE [success |-> TRUE, code |-> cleaned_code]

(***************************************************************************)
(* Code Preprocessor: _preprocess_code_for_common_errors.                  *)
(***************************************************************************)
\* the first index >= i of s that holds token t, 0 if none
RECURSIVE IndexOf(_, _, _)
IndexOf(s, i, t) ==
    IF i > Len(s) THEN 0
    ELSE IF s[i] = t THEN i
    ELSE IndexOf(s, i + 1, t)

\* old in s
Contains(s, old) == \E i \in 1..Len(s) : StartsWith(From(s, i), old)

\* append_pattern matched at the head of s: (\w+)\s*=\s*\1\.append\s*\(([^)]+)\)
\* [name, args, len] of the match, len = 0 when there is none
AppendMatch(s) ==
    LET i2 == SkipSpace(s, 2)
        i3 == SkipSpace(s, i2 + 1)
        i4 == SkipSpace(s, i3 + 3)
        c == IndexOf(s, i4 + 1, ")")
        ok == /\ s # <<>>
              /\ IsWord(s[1])
              /\ i2 <= Len(s) /\ s[i2] = "="
              /\ i3 + 2 <= Len(s)
              /\ s[i3] = s[1] /\ s[i3 + 1] = "." /\ s[i3 + 2] = "append"
              /\ i4 <= Len(s) /\ s[i4] = "("
              /\ c >= i4 + 2
    IN  IF ok THEN [name |-> s[1], args |-> SubSeq(s, i4 + 1, c - 1), len |-> c]
        ELSE [name |-> "", args |-> <<>>, len |-> 0]

\* re.sub(append_pattern, r"\1 = pd.concat([\1, \2], ignore_index=True)", code)
RECURSIVE SubAppend(_)
SubAppend(s) ==
    IF s = <<>> THEN <<>>
    ELSE LET m == AppendMatch(s)
         IN  IF m.len > 0
             THEN <<m.name, SP, "=", SP, "pd", ".", "concat", "(", "[", m.name, ",", SP>>
                      \o m.args
                      \o <<"]", ",", SP, "ignore_index", "=", "True", ")">>
                      \o SubAppend(From(s, m.len + 1))
             ELSE <<Head(s)>> \o SubAppend(Tail(s))

\* concat_pattern matched at the head of s: pd\.concat\s*\(\s*\[([^\]]+)\]\s*\)
\* the length of the match, 0 when there is none
ConcatMatchLen(s) ==
    LET i1 == SkipSpace(s, 4)
        i2 == SkipSpace(s, i1 + 1)
        b == IndexOf(s, i2 + 1, "]")
        c == SkipSpace(s, b + 1)
        ok == /\ StartsWith(s, <<"pd", ".", "concat">>)
              /\ i1 <= Len(s) /\ s[i1] = "("
              /\ i2 <= Len(s) /\ s[i2] = "["
              /\ b >= i2 + 2
              /\ c <= Len(s) /\ s[c] = ")"
    IN  IF ok THEN c ELSE 0

\* re.finditer(concat_pattern, code): the matched texts, left to right
RECURSIVE ConcatMatches(_)
ConcatMatches(s) ==
    IF s = <<>> THEN <<>>
    ELSE IF ConcatMatchLen(s) > 0
    THEN <<SubSeq(s, 1, ConcatMatchLen(s))>> \o ConcatMatches(From(s, ConcatMatchLen(s) + 1))
    ELSE ConcatMatches(Tail(s))

\* the loop over concat_matches: the first match without "ignore_index" is rewritten
\* wherever its text occurs, and the loop stops
RECURSIVE FixConcat(_, _)
FixConcat(code, matches) ==
    IF matches = <<>> THEN code
    ELSE LET full_match == Head(matches)
             new_match == SubSeq(full_match, 1, Len(full_match) - 1)
                              \o <<",", SP, "ignore_index", "=", "True", ")">>
         IN  IF ~Contains(full_match, <<"ignore_index">>)
             THEN Replace(code, full_match, new_match)
             ELSE FixConcat(code, Tail(matches))

InplaceMethods == {"sort_values", "drop_duplicates", "fillna", "reset_index"}

\* inplace\s*=\s*True at the head of s: its length, 0 when there is none
InplaceLen(s) ==
    LET i1 == SkipSpace(s, 2)
        i2 == SkipSpace(s, i1 + 1)
    IN  IF /\ s # <<>> /\ s[1] = "inplace"
           /\ i1 <= Len(s) /\ s[i1] = "="
           /\ i2 <= Len(s) /\ s[i2] = "True"
        THEN i2 ELSE 0

\* ,?\s*inplace\s*=\s*True,? at the head of s: its length, 0 when there is none
InplaceArgLen(s) ==
    LET i0 == IF s # <<>> /\ s[1] = "," THEN 2 ELSE 1
        i1 == SkipSpace(s, i0)
        n == InplaceLen(From(s, i1))
        e == i1 + n - 1
    IN  IF n = 0 THEN 0
        ELSE IF e + 1 <= Len(s) /\ s[e + 1] = "," THEN e + 1
        ELSE e

\* re.sub(r",?\s*inplace\s*=\s*True,?", "", args)
RECURSIVE SubInplaceArg(_)
SubInplaceArg(s) ==
    IF s = <<>> THEN <<>>
    ELSE IF InplaceArgLen(s) > 0 THEN SubInplaceArg(From(s, InplaceArgLen(s) + 1))
    ELSE <<Head(s)>> \o SubInplaceArg(Tail(s))

\* str.strip(", ")
RECURSIVE StripCommaSpace(_)
StripCommaSpace(s) ==
    IF s # <<>> /\ Head(s) \in {",", SP} THEN StripCommaSpace(Tail(s))
    ELSE IF s # <<>> /\ s[Len(s)] \in {",", SP} THEN StripCommaSpace(SubSeq(s, 1, Len(s) - 1))
    ELSE s

\* inplace_pattern matched at the head of s:
\* (\w+)\.(sort_values|drop_duplicates|fillna|reset_index)\(([^)]*inplace\s*=\s*True[^)]*)\)
InplaceMatch(s) ==
    LET c == IndexOf(s, 5, ")")
        args == SubSeq(s, 5, c - 1)
        ok == /\ Len(s) >= 5
              /\ IsWord(s[1]) /\ s[2] = "." /\ s[3] \in InplaceMethods /\ s[4] = "("
              /\ c # 0
              /\ \E i \in 1..Len(args) : InplaceLen(From(args, i)) > 0
    IN  IF ok THEN [name |-> s[1], method |-> s[3], args |-> args, len |-> c]
        ELSE [name |-> "", method |-> "", args |-> <<>>, len |-> 0]

\* re.sub(inplace_pattern, replace_inplace, code)
RECURSIVE SubInplace(_)
SubInplace(s) ==
    IF s = <<>> THEN <<>>
    ELSE LET m == InplaceMatch(s)
         IN  IF m.len > 0
             THEN <<m.name, SP, "=", SP, m.name, ".", m.method, "(">>
                      \o StripCommaSpace(SubInplaceArg(m.args)) \o <<")">>
                      \o SubInplace(From(s, m.len + 1))
             ELSE <<Head(s)>> \o SubInplace(Tail(s))

IsDigits(t) == t \in {"0", "1", "2", "3"}

\* \w+\[["\'][^"\']+["\']\]\[\d+\]\s*= somewhere in code
HasChainedIndexing(code) ==
    \E i \in 1..Len(code) :
        LET s == From(code, i)
            q == IF IndexOf(s, 4, "'") = 0 THEN IndexOf(s, 4, "\"")
                 ELSE IF IndexOf(s, 4, "\"") = 0 THEN IndexOf(s, 4, "'")
                 ELSE IF IndexOf(s, 4, "'") < IndexOf(s, 4, "\"") THEN IndexOf(s, 4, "'")
                 ELSE IndexOf(s, 4, "\"")
            e == SkipSpace(s, q + 5)
        IN  /\ Len(s) >= 3
            /\ IsWord(s[1]) /\ s[2] = "[" /\ s[3] \in {"'", "\""}
            /\ q >= 5
            /\ q + 4 <= Len(s)
            /\ s[q + 1] = "]" /\ s[q + 2] = "[" /\ IsDigits(s[q + 3]) /\ s[q + 4] = "]"
            /\ e <= Len(s) /\ s[e] = "="

ChainedIndexingWarning ==
    <<"#", SP, "Warning: Chained indexing detected - consider using .loc[] instead", NL>>

\* "data" in match.group(2): the identifiers of the scripts that hold the text "data"
HoldsData(name) == name \in {"data", "mydata"}

\* slice_pattern matched at the head of s: (\w+)\s*=\s*(\w+)\[([^\]]+)\](?!\s*\.)
SliceMatch(s) ==
    LET i1 == SkipSpace(s, 2)
        i2 == SkipSpace(s, i1 + 1)
        b == IndexOf(s, i2 + 2, "]")
        a == SkipSpace(s, b + 1)
        ok == /\ s # <<>> /\ IsWord(s[1])
              /\ i1 <= Len(s) /\ s[i1] = "="
              /\ i2 + 1 <= Len(s) /\ IsWord(s[i2]) /\ s[i2 + 1] = "["
              /\ b >= i2 + 3
              /\ ~(a <= Len(s) /\ s[a] = ".")
    IN  IF ok THEN [target |-> s[1], source |-> s[i2], index |-> SubSeq(s, i2 + 2, b - 1), len |-> b]
        ELSE [target |-> "", source |-> "", index |-> <<>>, len |-> 0]

\* re.sub(slice_pattern, add_copy, code); add_copy reads the whole code
RECURSIVE SubSlice(_, _)
SubSlice(s, code) ==
    IF s = <<>> THEN <<>>
    ELSE LET m == SliceMatch(s)
         IN  IF m.len > 0
             THEN (IF Contains(code, <<"pd", ".", "DataFrame">>) \/ HoldsData(m.source)
                   THEN <<m.target, SP, "=", SP, m.source, "[">> \o m.index
                            \o <<"]", ".", "copy", "(", ")">>
                   ELSE SubSeq(s, 1, m.len))
                      \o SubSlice(From(s, m.len + 1), code)
             ELSE <<Head(s)>> \o SubSlice(Tail(s), code)

\* Fix 1: Replace deprecated df.append() with pd.concat()
FixAppend(r) ==
    IF SubAppend(r.code) # r.code
    THEN [code |-> SubAppend(r.code),
          fixes_applied |-> Append(r.fixes_applied,
                                   "Replaced deprecated df.append() with pd.concat()")]
    ELSE r

\* Fix 2: Add ignore_index=True to pd.concat if missing
FixIgnoreIndex(r) ==
    IF FixConcat(r.code, ConcatMatches(r.code)) # r.code
    THEN [code |-> FixConcat(r.code, ConcatMatches(r.code)),
          fixes_applied |-> Append(r.fixes_applied, "Added ignore_index=True to pd.concat()")]
    ELSE r

\* Fix 3: Replace inplace=True with explicit assignment
FixInplace(r) ==
    IF SubInplace(r.code) # r.code
    THEN [code |-> SubInplace(r.code),
          fixes_applied |-> Append(r.fixes_applied,
                                   "Replaced inplace=True with explicit assignment (safer)")]
    ELSE r

\* Fix 4: a warning comment on chained indexing
FixChainedIndexing(r) ==
    IF HasChainedIndexing(r.code) /\ ~StartsWith(r.code, ChainedIndexingWarning)
    THEN [code |-> ChainedIndexingWarning \o r.code,
          fixes_applied |-> Append(r.fixes_applied, "Added warning about chained indexing")]
    ELSE r

\* Fix 5: Auto-add .copy() when slicing DataFrames
FixSlice(r) ==
    IF SubSlice(r.code, r.code) # r.code
    THEN [code |-> SubSlice(r.code, r.code),
          fixes_applied |->
              Append(r.fixes_applied,
                     "Added .copy() to DataFrame slices to avoid SettingWithCopyWarning")]
    ELSE r

\* the member of a one-element set; x \in {e} binds x to the value of e
Only(S) == CHOOSE x \in S : TRUE

_preprocess_code_for_common_errors(code) ==
    LET r5 == Only({FixSlice(r4) :
                  r4 \in {FixChainedIndexing(r3) :
                      r3 \in {FixInplace(r2) :
                          r2 \in {FixIgnoreIndex(r1) :
                              r1 \in {FixAppend([code |-> c, fixes_applied |-> <<>>]) :
                                  c \in {code}}}}}})
    IN  [success |-> TRUE, code |-> r5.code, fixes_applied |-> r5.fixes_applied]

(***************************************************************************)
(* Capability Environment Builder: _setup_secure_execution_environment.    *)
(*                                                                         *)
(* A namespace is a function from the names it binds to values; a value is *)
(* a record [kind, of].                                                    *)
(***************************************************************************)
\* the keys of the mapping before setattr was removed from it
SafeBuiltins_with_setattr ==
    {"len", "str", "int", "float", "bool", "list", "dict", "tuple", "set", "range",
     "enumerate", "zip", "map", "filter", "sorted", "sum", "min", "max", "abs", "round",
     "print", "type", "isinstance", "hasattr", "getattr", "setattr", "Exception",
     "ValueError", "TypeError", "KeyError", "IndexError", "AttributeError", "NameError",
     "ZeroDivisionError", "StopIteration"}

\* the keys of env["__builtins__"]
SafeBuiltins ==
    {"len", "str", "int", "float", "bool", "list", "dict", "tuple", "set", "range",
     "enumerate", "zip", "map", "filter", "sorted", "sum", "min", "max", "abs", "round",
     "print", "type", "isinstance", "hasattr", "getattr", "Exception", "ValueError",
     "TypeError", "KeyError", "IndexError", "AttributeError", "NameError",
     "ZeroDivisionError", "StopIteration"}

\* the standard modules bound under their own names
StandardModules ==
    {"math", "statistics", "decimal", "fractions", "datetime", "json", "re", "random"}

\* the optional libraries, in the order the builder tries them
OptionalLibraries == <<"pandas", "numpy", "matplotlib", "seaborn", "plotly", "scipy">>

Module(m) == [kind |-> "module", of |-> m]
\* an instance of the local class LibraryNotInstalled
LibraryNotInstalled(library_name) == [kind |-> "LibraryNotInstalled", of |-> library_name]
Value(kind, v) == [kind |-> kind, of |-> v]

\* a function given as a set of <<name, value>> pairs
Bindings(pairs) ==
    [n \in {p[1] : p \in pairs} |-> (CHOOSE p \in pairs : p[1] = n)[2]]

\* dict.update: the right operand wins
Update(f, g) ==
    [n \in (DOMAIN f) \cup (DOMAIN g) |-> IF n \in DOMAIN g THEN g[n] ELSE f[n]]

\* the text appended to available_libraries for a library
AvailableText(lib) ==
    CASE lib = "pandas" -> "pandas (pd)"
      [] lib = "numpy" -> "numpy (np)"
      [] lib = "matplotlib" -> "matplotlib (plt)"
      [] lib = "seaborn" -> "seaborn (sns)"
      [] lib = "plotly" -> "plotly (go, px)"
      [] lib = "scipy" -> "scipy (stats)"

\* available_libraries and missing_libraries after the six try blocks
AvailableLibraries(importable) ==
    LET present == SelectSeq(OptionalLibraries, LAMBDA lib : lib \in importable)
    IN  [i \in 1..Len(present) |-> AvailableText(present[i])]

MissingLibraries(importable) ==
    SelectSeq(OptionalLibraries, LAMBDA lib : lib \notin importable)

\* the try blocks of pandas, numpy, matplotlib and seaborn: the module, or the proxy
\* under both names
BindOrDegrade(importable, lib, alias, module) ==
    IF lib \in importable
    THEN {<<alias, Module(module)>>, <<lib, Module(module)>>}
    ELSE {<<alias, LibraryNotInstalled(lib)>>, <<lib, LibraryNotInstalled(lib)>>}

\* the try blocks of plotly and scipy: the except branch binds nothing
BindPlotly(importable) ==
    IF "plotly" \in importable
    THEN {<<"go", Module("plotly.graph_objects")>>, <<"px", Module("plotly.express")>>,
          <<"plotly", Value("dict", "plotly")>>}
    ELSE {}

BindScipy(importable) ==
    IF "scipy" \in importable
    THEN {<<"scipy", Module("scipy")>>, <<"stats", Module("scipy.stats")>>}
    ELSE {}

\* importable: the optional libraries whose import succeeds in this process
_setup_secure_execution_environment(current_user, importable) ==
    Bindings(
        {<<m, Module(m)>> : m \in StandardModules}
        \cup BindOrDegrade(importable, "pandas", "pd", "pandas")
        \cup BindOrDegrade(importable, "numpy", "np", "numpy")
        \cup BindOrDegrade(importable, "matplotlib", "plt", "matplotlib.pyplot")
        \cup BindOrDegrade(importable, "seaborn", "sns", "seaborn")
        \cup BindPlotly(importable)
        \cup BindScipy(importable)
        \cup {<<"__builtins__", Value("dict", SafeBuiltins)>>,
              <<"frappe", Module("frappe")>>,
              <<"get_doc", Value("function", "frappe.get_doc")>>,
              <<"get_list", Value("function", "frappe.get_list")>>,
              <<"get_all", Value("function", "frappe.get_all")>>,
              <<"get_single", Value("function", "frappe.get_single")>>,
              <<"db", Value("ReadOnlyDatabase", "frappe.db")>>,
              <<"current_user", Value("str", current_user)>>,
              <<"tools", Value("FrappeAssistantAPI", current_user)>>,
              <<"_available_libraries", Value("list", AvailableLibraries(importable))>>,
              <<"_missing_libraries", Value("list", MissingLibraries(importable))>>})

(***************************************************************************)
(* The interpreter behind exec(code, execution_globals).                   *)
(*                                                                         *)
(* A run state is [globals, attrs, store, exc, executed, observed,         *)
(* printed]:                                                               *)
(*   globals   the namespace given to exec, which the script's bindings    *)
(*             extend                                                      *)
(*   attrs     the attributes scripts have set on module objects; module   *)
(*             objects are the process's (sys.modules), not the            *)
(*             namespace's                                                 *)
(*   store     the documents of the data store                             *)
(*   exc       the exception that ended the run, NoException otherwise     *)
(*   executed  the statements that ran to completion, in order             *)
(*   observed  the module attributes read that an earlier execution set    *)
(*   printed   the text the script wrote to sys.stdout                     *)
(***************************************************************************)
NoException == [type |-> "", base |-> "", msg |-> <<>>]
\* an exception of class type whose str() is msg; base is Exception or BaseException
Raise(type, base, msg) == [type |-> type, base |-> base, msg |-> msg]

\* the attributes the modules are born with, as far as the scripts read them
NativeAttrs ==
    {<<"math", "pi">>, <<"pandas", "DataFrame">>, <<"plotly.express", "bar">>,
     <<"frappe", "db">>, <<"frappe", "delete_doc">>}

\* the data store before any script ran: the names of the documents
InitialStore == {"n"}

\* s without the whitespace outside its string literals; quote is the open literal's
\* quote character, "" outside a literal
RECURSIVE SqueezeFrom(_, _)
SqueezeFrom(s, quote) ==
    IF s = <<>> THEN <<>>
    ELSE IF quote = "" /\ IsSpace(Head(s)) THEN SqueezeFrom(Tail(s), quote)
    ELSE <<Head(s)>> \o SqueezeFrom(Tail(s),
                                    IF quote = "" /\ Head(s) \in {"'", "\""} THEN Head(s)
                                    ELSE IF Head(s) = quote THEN ""
                                    ELSE quote)

Squeeze(s) == SqueezeFrom(s, "")

\* line without its comment
BeforeComment(line) ==
    IF IndexOf(line, 1, "#") = 0 THEN line ELSE SubSeq(line, 1, IndexOf(line, 1, "#") - 1)

RECURSIVE Concat(_)
Concat(seqs) == IF seqs = <<>> THEN <<>> ELSE Head(seqs) \o Concat(Tail(seqs))

\* the simple statements of the script, in order, each without whitespace
Statements(code) ==
    LET lines == Split(code, NL)
        parts == Concat([i \in 1..Len(lines) |-> Split(BeforeComment(lines[i]), ";")])
        squeezed == [i \in 1..Len(parts) |-> Squeeze(parts[i])]
    IN  SelectSeq(squeezed, LAMBDA q : q # <<>>)

IsImport(q) == q[1] \in {"import", "from"} /\ Len(q) >= 2
IsRaise(q) ==
    /\ Len(q) = 4 /\ q[1] = "raise" /\ q[3] = "(" /\ q[4] = ")"
    /\ q[2] \in {"Exception", "ValueError", "TypeError", "KeyError", "IndexError",
                 "AttributeError", "NameError", "ZeroDivisionError", "StopIteration"}
IsRaiseBase(q) == q = <<"raise", "Exception", ".", "__base__", "(", ")">>
IsAssign(q) == Len(q) = 3 /\ IsWord(q[1]) /\ q[2] = "=" /\ IsDigits(q[3])
IsAssignList(q) ==
    Len(q) = 5 /\ IsWord(q[1]) /\ q[2] = "=" /\ q[3] = "[" /\ IsDigits(q[4]) /\ q[5] = "]"
IsAssignStr(q) ==
    /\ Len(q) >= 4 /\ IsWord(q[1]) /\ q[2] = "=" /\ q[3] \in {"'", "\""} /\ q[Len(q)] = q[3]
    /\ \A i \in 4..(Len(q) - 1) : q[i] # q[3]
IsAttrRead(q) ==
    Len(q) = 5 /\ IsWord(q[1]) /\ q[2] = "=" /\ IsWord(q[3]) /\ q[4] = "." /\ IsWord(q[5])
IsAttrWrite(q) ==
    Len(q) = 5 /\ IsWord(q[1]) /\ q[2] = "." /\ IsWord(q[3]) /\ q[4] = "=" /\ IsDigits(q[5])
IsSubscript(q) ==
    /\ Len(q) \in {6, 10}
    /\ IsWord(q[1]) /\ q[2] = "=" /\ IsWord(q[3]) /\ q[4] = "[" /\ IsDigits(q[5]) /\ q[6] = "]"
    /\ Len(q) = 10 => SubSeq(q, 7, 10) = <<".", "copy", "(", ")">>
IsPrint(q) ==
    /\ Len(q) >= 5 /\ SubSeq(q, 1, 2) = <<"print", "(">> /\ q[3] \in {"'", "\""}
    /\ q[Len(q) - 1] = q[3] /\ q[Len(q)] = ")"
    /\ \A i \in 4..(Len(q) - 2) : q[i] # q[3]
\* the expression statement '\ud800'.encode(): the escape is six ordinary characters
\* of the script, which the sanitizer leaves alone
IsEncodeSurrogate(q) == q = <<"'", "\\ud800", "'", ".", "encode", "(", ")">>
IsDeleteDoc(q) ==
    StartsWith(q, <<"frappe", ".", "delete_doc", "(">>) /\ q[Len(q)] = ")"
IsRawQuery(q) ==
    StartsWith(q, <<"frappe", ".", "db", ".", "sql", "(">>) /\ q[Len(q)] = ")"

\* what compile() accepts
Compiles(q) ==
    \/ IsImport(q) \/ IsRaise(q) \/ IsRaiseBase(q) \/ IsAssign(q) \/ IsAssignStr(q)
    \/ IsAssignList(q) \/ IsPrint(q) \/ IsEncodeSurrogate(q) \/ IsAttrRead(q)
    \/ IsAttrWrite(q) \/ IsSubscript(q) \/ IsDeleteDoc(q) \/ IsRawQuery(q)

\* globals["__builtins__"], as a set of names
Builtins(globals) ==
    IF "__builtins__" \in DOMAIN globals THEN globals["__builtins__"].of ELSE {}

\* a name is looked up in the globals, then in the builtins
IsBound(globals, name) == name \in DOMAIN globals \/ name \in Builtins(globals)
Lookup(globals, name) ==
    IF name \in DOMAIN globals THEN globals[name] ELSE Value("builtin", name)
NameError(name) == Raise("NameError", "Exception", <<"name '", name, "' is not defined">>)

\* LibraryNotInstalled.__getattr__
NotInstalledError(library_name, available_libraries) ==
    Raise("ImportError", "Exception",
          <<library_name, " is not installed in this environment.", "Available libraries: ">>
              \o (IF available_libraries # <<>> THEN available_libraries
                  ELSE <<"None (data science libraries)">>))

Failed(st, exc) == [st EXCEPT !.exc = exc]
Bind(st, name, v) == [st EXCEPT !.globals = Update(@, Bindings({<<name, v>>}))]

\* the attribute attr a script set on module m, if any
SetAttrs(st, m, attr) == {a \in st.attrs : a.module = m /\ a.attr = attr}

\* target = name.attr
ExecAttrRead(st, target, name, attr, available_libraries) ==
    IF ~IsBound(st.globals, name) THEN Failed(st, NameError(name))
    ELSE LET v == Lookup(st.globals, name)
         IN  IF v.kind = "LibraryNotInstalled"
             THEN Failed(st, NotInstalledError(v.of, available_libraries))
             ELSE IF v.kind = "module" /\ SetAttrs(st, v.of, attr) # {}
             THEN LET a == CHOOSE a \in SetAttrs(st, v.of, attr) : TRUE
                  IN  [Bind(st, target, a.value) EXCEPT
                          !.observed = IF a.mine THEN @ ELSE @ \cup {<<v.of, attr>>}]
             ELSE IF v.kind = "module" /\ <<v.of, attr>> \in NativeAttrs
             THEN Bind(st, target, Value("native", <<v.of, attr>>))
             ELSE Failed(st, Raise("AttributeError", "Exception",
                                   <<"'", v.kind, "' object has no attribute '", attr, "'">>))

\* name.attr = literal
ExecAttrWrite(st, name, attr, literal) ==
    IF ~IsBound(st.globals, name) THEN Failed(st, NameError(name))
    ELSE LET v == Lookup(st.globals, name)
         IN  IF v.kind = "module"
             THEN [st EXCEPT !.attrs = (@ \ SetAttrs(st, v.of, attr))
                                 \cup {[module |-> v.of, attr |-> attr,
                                        value |-> Value("int", literal), mine |-> TRUE]}]
             ELSE IF v.kind = "LibraryNotInstalled" THEN st
             ELSE Failed(st, Raise("AttributeError", "Exception",
                                   <<"'", v.kind, "' object has no attribute '", attr, "'">>))

\* target = name[literal], or target = name[literal].copy()
ExecSubscript(st, target, name, literal, copy) ==
    IF ~IsBound(st.globals, name) THEN Failed(st, NameError(name))
    ELSE LET v == Lookup(st.globals, name)
             \* the position a literal index names
             IndexValue(l) ==
                 CASE l = "0" -> 1 [] l = "1" -> 2 [] l = "2" -> 3 [] l = "3" -> 4
         IN  IF v.kind # "list"
             THEN Failed(st, Raise("TypeError", "Exception",
                                   <<"'", v.kind, "' object is not subscriptable">>))
             ELSE IF IndexValue(literal) > Len(v.of)
             THEN Failed(st, Raise("IndexError", "Exception", <<"list index out of range">>))
             ELSE IF copy /\ v.of[IndexValue(literal)].kind \notin {"dict", "list"}
             THEN Failed(st, Raise("AttributeError", "Exception",
                                   <<"'", v.of[IndexValue(literal)].kind,
                                     "' object has no attribute '", "copy", "'">>))
             ELSE Bind(st, target, v.of[IndexValue(literal)])

\* frappe.delete_doc(doctype, name): q[10] is the name's text
ExecDeleteDoc(st, q) ==
    IF ~IsBound(st.globals, "frappe") THEN Failed(st, NameError("frappe"))
    ELSE IF Lookup(st.globals, "frappe") # Module("frappe")
    THEN Failed(st, Raise("AttributeError", "Exception",
                          <<"'", Lookup(st.globals, "frappe").kind,
                            "' object has no attribute '", "delete_doc", "'">>))
    ELSE IF Len(q) < 10 \/ q[10] \notin st.store
    THEN Failed(st, Raise("DoesNotExistError", "Exception", <<"document not found">>))
    ELSE [st EXCEPT !.store = @ \ {q[10]}]

\* frappe.db.sql(query): the live connection runs whatever the query says
ExecRawQuery(st, q) ==
    IF ~IsBound(st.globals, "frappe") THEN Failed(st, NameError("frappe"))
    ELSE IF Lookup(st.globals, "frappe") # Module("frappe")
    THEN Failed(st, Raise("AttributeError", "Exception",
                          <<"'", Lookup(st.globals, "frappe").kind,
                            "' object has no attribute '", "db", "'">>))
    ELSE IF \E i \in 1..Len(q) : Lower(q[i]) = "delete"
    THEN [st EXCEPT !.store = {}]
    ELSE st

\* one statement; the builtins hold no __import__, so an import statement raises
ExecStatement(st, q, available_libraries) ==
    CASE IsImport(q) ->
             Failed(st, Raise("ImportError", "Exception", <<"__import__ not found">>))
      [] IsRaiseBase(q) -> Failed(st, Raise("BaseException", "BaseException", <<>>))
      [] IsRaise(q) -> Failed(st, Raise(q[2], "Exception", <<>>))
      [] IsAssign(q) -> Bind(st, q[1], Value("int", q[3]))
      [] IsAssignStr(q) -> Bind(st, q[1], Value("str", SubSeq(q, 4, Len(q) - 1)))
      [] IsAssignList(q) -> Bind(st, q[1], Value("list", <<Value("int", q[4])>>))
      [] IsEncodeSurrogate(q) ->
             Failed(st, Raise("UnicodeEncodeError", "Exception",
                              <<"'utf-8' codec can't encode character '", "\\ud800",
                                "' in position 0: ", "surrogates not allowed">>))
      [] IsPrint(q) -> [st EXCEPT !.printed = @ \o SubSeq(q, 4, Len(q) - 2) \o <<NL>>]
      [] IsAttrRead(q) -> ExecAttrRead(st, q[1], q[3], q[5], available_libraries)
      [] IsAttrWrite(q) -> ExecAttrWrite(st, q[1], q[3], q[5])
      [] IsSubscript(q) -> ExecSubscript(st, q[1], q[3], q[5], Len(q) = 10)
      [] IsDeleteDoc(q) -> ExecDeleteDoc(st, q)
      [] IsRawQuery(q) -> ExecRawQuery(st, q)

RECURSIVE RunStatements(_, _, _)
RunStatements(st, stmts, available_libraries) ==
    IF stmts = <<>> \/ st.exc # NoException THEN st
    ELSE Only({RunStatements(
                   IF after.exc = NoException
                   THEN [after EXCEPT !.executed = Append(@, Head(stmts))]
                   ELSE after,
                   Tail(stmts), available_libraries) :
               after \in {ExecStatement(s0, Head(stmts), available_libraries) : s0 \in {st}}})

\* exec(code, execution_globals): the script is compiled as a whole, then run
Exec(code, execution_globals, attrs, docs, available_libraries) ==
    LET st == [globals |-> execution_globals, attrs |-> attrs, store |-> docs,
               exc |-> NoException, executed |-> <<>>, observed |-> {}, printed |-> <<>>]
        stmts == Statements(code)
    IN  IF ~EncodesToUtf8(code)
        THEN Failed(st, Raise("UnicodeEncodeError", "Exception",
                              <<"'utf-8' codec can't encode character: ",
                                "surrogates not allowed">>))
        ELSE IF \E i \in 1..Len(stmts) : ~Compiles(stmts[i])
        THEN Failed(st, Raise("SyntaxError", "Exception", <<"invalid syntax">>))
        ELSE RunStatements(st, stmts, available_libraries)

(***************************************************************************)
(* Result Extractor and error conversion: _serialize_variable,             *)
(* _enhance_error_message, and the result of _execute_code_with_timeout.   *)
(***************************************************************************)
\* a dict given as a function; {} is the empty one
EmptyDict == [n \in {} |-> TRUE]

\* none of the values of the scripts has to_dict, to_list or tolist; then numpy is
\* imported inside the try block, and the except branch answers a placeholder
_serialize_variable(value, importable) ==
    IF "numpy" \notin importable \/ value.kind = "native"
    THEN Value("str", <<"<", value.kind, " object>">>)
    ELSE IF value.kind \in {"str", "int", "float", "bool", "list", "dict", "tuple"} THEN value
    ELSE Value("str", <<"str", value.kind>>)

excluded_vars ==
    {"frappe", "pd", "np", "plt", "sns", "data", "current_user", "db", "get_doc", "get_list",
     "get_all", "get_single", "math", "datetime", "json", "re", "random", "statistics",
     "decimal", "fractions", "pandas", "numpy", "matplotlib", "seaborn", "plotly", "scipy",
     "stats", "go", "px", "__builtins__", "__name__", "__doc__", "__package__", "__loader__",
     "__spec__", "__annotations__", "__cached__"}

\* the two extraction loops of the success path
ExtractVariables(execution_globals, return_variables, importable) ==
    LET \* var_name.startswith("_"), for the names that occur
        StartsWithUnderscore(var_name) ==
            var_name \in {"_available_libraries", "_missing_libraries", "__builtins__"}
        listed == {n \in DOMAIN execution_globals :
                      /\ ~StartsWithUnderscore(n)
                      /\ n \notin excluded_vars
                      /\ n \notin Builtins(execution_globals)}
        requested == {return_variables[i] : i \in 1..Len(return_variables)}
                         \cap DOMAIN execution_globals
    IN  [n \in listed \cup requested |-> _serialize_variable(execution_globals[n], importable)]

\* <<pattern, reason, solution>>, in the order of the dict literal
error_enhancements ==
    << << <<"name '", "pd", "' is not defined">>,
          "pandas library is not available in this environment",
          "Use Frappe's native data tools instead">>,
       << <<"name '", "np", "' is not defined">>,
          "numpy library is not available in this environment",
          "Use Python's math or statistics modules for calculations">>,
       << <<"name '", "plt", "' is not defined">>,
          "matplotlib library is not available in this environment",
          "Visualization is not supported without matplotlib">>,
       << <<"KeyError">>,
          "Column or key doesn't exist in the DataFrame/dict",
          "Check available columns/keys before accessing">>,
       << <<"'", "DataFrame", "' object has no attribute '", "append", "'">>,
          "df.append() was deprecated in pandas 2.0",
          "Use pd.concat() instead (this should have been auto-fixed)">>,
       << <<"ValueError">>,
          "Value error - often due to array length mismatch or invalid value",
          "Check array shapes and data types">>,
       << <<"AttributeError">>,
          "Attribute doesn't exist on the object",
          "Check object type and available methods">>,
       << <<"IndexError">>,
          "Index out of range",
          "Check list/array length before accessing by index">>,
       << <<"TypeError">>,
          "Type error - operation not supported for these types",
          "Check data types and convert if needed">> >>

\* the remediation texts alternative_code, available_alternatives and debug_tip go with
\* the entry's reason and solution; traceback is the exception's class and message
_enhance_error_message(error_msg, error_traceback, env) ==
    LET \* env.get(key, [])
        GetList(e, key) == IF key \in DOMAIN e THEN e[key].of ELSE <<>>
        lower(s) == [i \in 1..Len(s) |-> Lower(s[i])]
        Matches(k) == Contains(lower(error_msg), lower(error_enhancements[k][1]))
    IN
    IF \E k \in 1..Len(error_enhancements) : Matches(k)
    THEN LET k == CHOOSE k \in 1..Len(error_enhancements) :
                      Matches(k) /\ \A j \in 1..(k - 1) : ~Matches(j)
         IN  [success |-> FALSE, error |-> error_msg,
              reason |-> error_enhancements[k][2],
              solution |-> error_enhancements[k][3],
              traceback |-> error_traceback,
              available_libraries |-> GetList(env, "_available_libraries"),
              missing_libraries |-> GetList(env, "_missing_libraries")]
    ELSE [success |-> FALSE, error |-> error_msg,
          traceback |-> error_traceback,
          available_libraries |-> GetList(env, "_available_libraries"),
          missing_libraries |-> GetList(env, "_missing_libraries"),
          help |-> "Check that all required libraries are available and data types are correct"]

\* the conversion of a finished run into the result; run.exc.base = "BaseException" is
\* not handled here: neither except clause catches it
ExecutionResult(run, code, capture_output, return_variables, current_user, audit_info,
                importable) ==
    LET execution_info == [execution_id |-> audit_info.execution_id,
                           executed_by |-> current_user]
        unicode_result(error_msg) ==
            [success |-> FALSE, error |-> error_msg,
             traceback |-> <<run.exc.type>> \o run.exc.msg,
             output |-> <<>>, variables |-> EmptyDict, user_context |-> current_user,
             unicode_error |-> TRUE, execution_info |-> execution_info]
    IN  IF run.exc = NoException
        THEN LET variables == ExtractVariables(run.globals, return_variables, importable)
             IN  [success |-> TRUE,
                  output |-> IF capture_output THEN run.printed ELSE <<>>,
                  error |-> <<>>,
                  variables |-> variables,
                  user_context |-> current_user,
                  execution_info |->
                      [lines_executed |-> Len(Split(code, NL)),
                       variables_returned |-> Cardinality(DOMAIN variables),
                       execution_id |-> audit_info.execution_id,
                       executed_by |-> current_user]]
        ELSE IF run.exc.type = "UnicodeEncodeError"
        THEN unicode_result(<<"Unicode Error: Code contains characters that cannot be encoded in UTF-8">>)
        ELSE IF Contains(run.exc.msg, <<"surrogates not allowed">>)
                    \/ Contains(run.exc.msg, <<"UnicodeEncodeError">>)
        THEN unicode_result(<<"Unicode encoding error: ">> \o run.exc.msg)
        ELSE LET enhanced == _enhance_error_message(run.exc.msg,
                                                    <<run.exc.type>> \o run.exc.msg,
                                                    run.globals)
                 context == [output |-> <<>>, variables |-> EmptyDict,
                             user_context |-> current_user,
                             execution_info |-> execution_info]
             IN  Update(enhanced, context)

(***************************************************************************)
(* The requests.                                                           *)
(***************************************************************************)
\* the lines the scanner and the import check tell apart, with a plain statement
ImportLines ==
    { <<"x", SP, "=", SP, "1">>,
      Imp("math"),
      Imp("os"),
      <<SP, SP>> \o Imp("sys"),
      Imp("math") \o <<SP, "#", SP, "trigonometry">>,
      Imp("collections"),
      FromImp("math") \o <<SP, "sqrt">>,
      <<"y", SP, "=", SP, "collections", ".", "Counter">>,
      <<"x", SP, "=", SP, "1", ";", SP>> \o Imp("os"),
      <<"frappe", ".", "db", ".", "sql", "(", "'", "DELETE", SP, "FROM", SP, "t", "'", ")">> }

\* the lines that reach the store, the modules, the libraries and the error paths
StatementLines ==
    { <<"frappe", ".", "db", ".", "sql", "(", "f", "'", "DELETE", SP, "FROM", SP, "t", "'", ")">>,
      <<"frappe", ".", "delete_doc", "(", "'", "T", "'", ",", SP, "'", "n", "'", ")">>,
      <<"math", ".", "leak", SP, "=", SP, "1">>,
      <<"y", SP, "=", SP, "math", ".", "leak">>,
      <<"y", SP, "=", SP, "px", ".", "bar">>,
      <<"y", SP, "=", SP, "pd", ".", "DataFrame">>,
      <<"raise", SP, "Exception", ".", "__base__", "(", ")">>,
      <<"raise", SP, "ValueError", "(", ")">>,
      <<"s", SP, "=", SP, "'", SURROGATE, "'">>,
      <<"y", SP, "=", SP, "data", "[", "0", "]">>,
      <<"print", "(", "'", "a", "'", ")", ";", SP, "raise", SP, "ValueError", "(", ")">>,
      <<"'", "\\ud800", "'", ".", "encode", "(", ")">>,
      <<"mydata", SP, "=", SP, "[", "1", "]", ";", SP, "y", SP, "=", SP, "mydata", "[", "0", "]">> }

\* the scripts of n lines: any line alone, and the import lines in every arrangement
RECURSIVE ScriptsOf(_)
ScriptsOf(n) ==
    IF n = 1 THEN ImportLines \cup StatementLines
    ELSE {s \o <<NL>> \o l : s \in (ScriptsOf(n - 1) \ StatementLines), l \in ImportLines}

\* the values of arguments["code"]: a script, an empty or blank string, or no string
CodeArguments ==
    {[type |-> "str", text |-> s] : s \in UNION {ScriptsOf(n) : n \in 1..MaxLines}}
        \cup {[type |-> "str", text |-> <<>>], [type |-> "str", text |-> <<SP, NL>>],
              [type |-> "NoneType", text |-> <<>>]}

\* the session users and the ones holding the System Manager role
Users == {"admin@example.com", "user@example.com"}
SystemManagers == {"admin@example.com"}

\* the values of arguments["data_query"]: none, or a query on a doctype the caller may
\* or may not read
DataQueries ==
    {[given |-> FALSE, doctype |-> "", readable |-> TRUE],
     [given |-> TRUE, doctype |-> "", readable |-> TRUE],
     [given |-> TRUE, doctype |-> "T", readable |-> TRUE],
     [given |-> TRUE, doctype |-> "T", readable |-> FALSE]}

\* the sets of optional libraries a process may find importable
Installations ==
    {{}, {"numpy"}, {"pandas", "numpy", "matplotlib", "seaborn", "plotly", "scipy"}}

(***************************************************************************)
(* _fetch_data_from_query.                                                 *)
(***************************************************************************)
\* the rows of the doctype's table as plain dicts, or the exception raised
_fetch_data_from_query(data_query, docs) ==
    IF data_query.doctype = ""
    THEN [exc |-> Raise("ValueError", "Exception", <<"DocType is required for data query">>),
          rows |-> <<>>]
    ELSE IF ~data_query.readable
    THEN [exc |-> Raise("PermissionError", "Exception",
                        <<"No permission to read ", data_query.doctype>>),
          rows |-> <<>>]
    ELSE [exc |-> NoException,
          rows |-> [i \in 1..Cardinality(docs) |-> Value("dict", "row")]]

(***************************************************************************)
(* State.                                                                  *)
(***************************************************************************)
VARIABLES
    pc,                 \* where the worker stands in ExecutePythonCode.execute
    arguments,          \* the arguments of the request being served
    session_user,       \* the session's user, as secure_user_context finds it
    current_user,       \* the user secure_user_context yielded
    audit_info,         \* what audit_code_execution yielded
    code,               \* execute's local variable code
    stages,             \* the stages that ran for this request and what each answered
    execution_globals,  \* the namespace built for this request
    fixes_applied,      \* execute's local variable fixes_applied
    run,                \* the run of the script, once exec has returned or raised
    result,             \* what execute returned, or the exception it let through
    outcome,            \* "pending", "returned" or "raised"
    attrs,              \* the attributes scripts have set on the process's modules
    store,              \* the documents of the data store
    importable,         \* the optional libraries the builder's imports found
    timeout,            \* the parameters of _execute_code_with_timeout
    capture_output,
    return_variables,
    old_targets,        \* what redirect_stdout and redirect_stderr saved on entry
    sys,                \* the process's sys.stdout and sys.stderr
    facade_call,        \* the last call of the tools facade
    facade_log,         \* what that call asked of the host, in order
    facade_reply,       \* what that call returned
    adapter,            \* the FrappeProxyAdapter object: its configuration and its _cache
    site,               \* the Frappe site the adapter talks to, and the wall clock
    adapter_call,       \* the last call of an adapter method and what it returned
    stored_at,          \* for every entry of the adapter's _cache, when it was stored
    prepared,           \* a generate_report call on a prepared report and its background job
    mail,               \* the Communication of the email tools and what sendmail was handed
    mcp                 \* the MCP endpoint: the tool registry and the requests in flight

request_vars ==
    <<arguments, session_user, current_user, audit_info, code, stages, execution_globals,
      fixes_applied, run, result, outcome, importable, timeout, capture_output,
      return_variables, old_targets>>
process_vars == <<attrs, store, sys>>
facade_vars == <<facade_call, facade_log, facade_reply>>
ext_vars == <<adapter, site, adapter_call, stored_at, prepared, mail, mcp>>
vars == <<pc, request_vars, process_vars, facade_vars, ext_vars>>

NoResult == [pending |-> TRUE]
NoRun ==
    [globals |-> EmptyDict, attrs |-> {}, store |-> {}, exc |-> NoException,
     executed |-> <<>>, observed |-> {}, printed |-> <<>>]
NoArguments == [code |-> [type |-> "str", text |-> <<>>]]

\* the streams the process starts with
StandardStreams == [stdout |-> "sys.__stdout__", stderr |-> "sys.__stderr__"]

\* the documents of the site when the adapter is constructed
InitialServer ==
    [doctype \in {<<"Customer">>, <<"Customer", " ", "Group">>} |->
        IF doctype = <<"Customer">>
        THEN [i \in 1..MaxDocs |->
                 [name |-> <<"1", "2", "3", "4", "5", "6", "7", "8", "9">>[i], modified |-> 0]]
        ELSE <<[name |-> "1", modified |-> 0]>>]

Init ==
    /\ pc = "idle"
    /\ arguments = NoArguments
    /\ session_user = ""
    /\ current_user = ""
    /\ audit_info = [execution_id |-> ""]
    /\ code = <<>>
    /\ stages = <<>>
    /\ execution_globals = EmptyDict
    /\ fixes_applied = <<>>
    /\ run = NoRun
    /\ result = NoResult
    /\ outcome = "pending"
    /\ attrs = {}
    /\ store = InitialStore
    /\ importable = {}
    /\ timeout = 30
    /\ capture_output = TRUE
    /\ return_variables = <<>>
    /\ old_targets = <<>>
    /\ sys = StandardStreams
    /\ facade_call = [op |-> "", target |-> "", granted |-> {}]
    /\ facade_log = <<>>
    /\ facade_reply = [success |-> TRUE]
    /\ adapter = [enable_cache |-> FALSE, cache_ttl |-> 300, max_retries |-> 3, _cache |-> <<>>]
    /\ site = [server |-> InitialServer, outage |-> 0, rev |-> 0, now |-> 0]
    /\ adapter_call = [number |-> 0, op |-> "", args |-> <<>>, raised |-> FALSE,
                       response |-> <<>>, http |-> 0, removed |-> {}]
    /\ stored_at = <<>>
    /\ prepared = [pc |-> "idle"]
    /\ mail = [comm |-> [none |-> TRUE], outbox |-> <<>>, result |-> [none |-> TRUE],
               request |-> [r \in 1..MaxRequests |-> [pc |-> "idle"]]]
    /\ mcp = [_tool_registry |-> {},
              request |-> [r \in 1..MaxRequests |-> [pc |-> "idle", user |-> ""]]]

(***************************************************************************)
(* ExecutePythonCode.execute, one action per step.                         *)
(***************************************************************************)
\* the stage has run and has accepted the script, or not
Ran(stage, passed) == [stage |-> stage, passed |-> passed]

\* execute returns res
Return(res) ==
    /\ result' = res
    /\ outcome' = "returned"
    /\ pc' = "done"

\* execute lets the exception exc through to its caller
Propagate(exc) ==
    /\ result' = exc
    /\ outcome' = "raised"
    /\ pc' = "done"

\* a request arrives: the tool is called with arguments
call_execute ==
    /\ pc = "idle"
    /\ \E c \in CodeArguments : arguments' = [code |-> c]
    /\ pc' = "check_code"
    /\ UNCHANGED <<session_user, current_user, audit_info, code, stages, execution_globals,
                   fixes_applied, run, result, outcome, importable, timeout, capture_output,
                   return_variables, old_targets, process_vars>>
    /\ UNCHANGED <<facade_vars, ext_vars>>

\* if not code.strip(): outside the try block
execute_check_code ==
    /\ pc = "check_code"
    /\ IF arguments.code.type # "str"
       THEN /\ Propagate(Raise("AttributeError", "Exception",
                               <<"'", arguments.code.type, "' object has no attribute '",
                                 "strip", "'">>))
            /\ UNCHANGED code
       ELSE IF Strip(arguments.code.text) = <<>>
       THEN /\ Return([success |-> FALSE, error |-> <<"No code provided">>,
                       output |-> <<>>, variables |-> EmptyDict])
            /\ UNCHANGED code
       ELSE /\ code' = arguments.code.text
            /\ pc' = "context"
            /\ UNCHANGED <<result, outcome>>
    /\ UNCHANGED <<arguments, session_user, current_user, audit_info, stages,
                   execution_globals, fixes_applied, run, importable, timeout, capture_output,
                   return_variables, old_targets,
                   process_vars>>
    /\ UNCHANGED <<facade_vars, ext_vars>>

\* with secure_user_context(require_system_manager=True), with audit_code_execution(...);
\* except frappe.PermissionError
execute_enter_context ==
    /\ pc = "context"
    /\ \E user \in Users :
           /\ session_user' = user
           /\ IF user \notin SystemManagers
              THEN /\ Return([success |-> FALSE, error |-> <<"System Manager role required">>,
                              output |-> <<>>, variables |-> EmptyDict,
                              security_error |-> TRUE])
                   /\ UNCHANGED <<current_user, audit_info>>
              ELSE /\ current_user' = user
                   /\ audit_info' = [execution_id |-> "execution-id"]
                   /\ pc' = "scan"
                   /\ UNCHANGED <<result, outcome>>
    /\ UNCHANGED <<arguments, code, stages, execution_globals, fixes_applied, run,
                   importable, timeout, capture_output,
                   return_variables, old_targets, process_vars>>
    /\ UNCHANGED <<facade_vars, ext_vars>>

\* security_check = self._scan_for_dangerous_operations(code)
execute_scan ==
    /\ pc = "scan"
    /\ \E security_check \in {_scan_for_dangerous_operations(code)} :
           /\ stages' = Append(stages, Ran("scan", security_check.success))
           /\ IF ~security_check.success
              THEN Return(security_check)
              ELSE pc' = "imports" /\ UNCHANGED <<result, outcome>>
    /\ UNCHANGED <<arguments, session_user, current_user, audit_info, code,
                   execution_globals, fixes_applied, run, importable, timeout, capture_output,
                   return_variables, old_targets,
                   process_vars>>
    /\ UNCHANGED <<facade_vars, ext_vars>>

\* the import check with its early return dropped: the rewritten lines, in which every
\* rejected import is already a "# REMOVED" comment, go on to the next stage
execute_check_imports_without_return ==
    /\ pc = "imports"
    /\ stages' = Append(stages, Ran("imports", _check_and_handle_imports(code).success))
    /\ code' = Join([i \in 1..Len(Split(code, NL)) |-> ProcessedLine(Split(code, NL)[i])], NL)
    /\ pc' = "rewrite"
    /\ UNCHANGED <<arguments, session_user, current_user, audit_info, execution_globals,
                   fixes_applied, run, result, outcome, importable, timeout, capture_output,
                   return_variables, old_targets,
                   process_vars>>
    /\ UNCHANGED <<facade_vars, ext_vars>>

\* import_check_result = self._check_and_handle_imports(code)
execute_check_imports ==
    /\ pc = "imports"
    /\ \E import_check_result \in {_check_and_handle_imports(code)} :
           /\ stages' = Append(stages, Ran("imports", import_check_result.success))
           /\ IF ~import_check_result.success
              THEN Return(import_check_result) /\ UNCHANGED code
              ELSE /\ code' = import_check_result.code
                   /\ pc' = "rewrite"
                   /\ UNCHANGED <<result, outcome>>
    /\ UNCHANGED <<arguments, session_user, current_user, audit_info, execution_globals,
                   fixes_applied, run, importable, timeout, capture_output,
                   return_variables, old_targets,
                   process_vars>>
    /\ UNCHANGED <<facade_vars, ext_vars>>

\* code = self._remove_dangerous_imports(import_check_result["code"])
execute_remove_imports ==
    /\ pc = "rewrite"
    /\ stages' = Append(stages, Ran("rewrite", TRUE))
    /\ code' = _remove_dangerous_imports(code)
    /\ pc' = "sanitize"
    /\ UNCHANGED <<arguments, session_user, current_user, audit_info, execution_globals,
                   fixes_applied, run, result, outcome, importable, timeout, capture_output,
                   return_variables, old_targets,
                   process_vars>>
    /\ UNCHANGED <<facade_vars, ext_vars>>

\* unicode_check_result = self._sanitize_unicode(code)
execute_sanitize ==
    /\ pc = "sanitize"
    /\ \E unicode_check_result \in {_sanitize_unicode(code)} :
           /\ stages' = Append(stages, Ran("sanitize", unicode_check_result.success))
           /\ IF ~unicode_check_result.success
              THEN Return(unicode_check_result) /\ UNCHANGED code
              ELSE /\ code' = unicode_check_result.code
                   /\ pc' = "preprocess"
                   /\ UNCHANGED <<result, outcome>>
    /\ UNCHANGED <<arguments, session_user, current_user, audit_info, execution_globals,
                   fixes_applied, run, importable, timeout, capture_output,
                   return_variables, old_targets,
                   process_vars>>
    /\ UNCHANGED <<facade_vars, ext_vars>>

\* preprocess_result = self._preprocess_code_for_common_errors(code)
execute_preprocess ==
    /\ pc = "preprocess"
    /\ stages' = Append(stages, Ran("preprocess", TRUE))
    /\ \E preprocess_result \in {_preprocess_code_for_common_errors(code)} :
           /\ code' = preprocess_result.code
           /\ fixes_applied' = preprocess_result.fixes_applied
    /\ pc' = "environment"
    /\ UNCHANGED <<arguments, session_user, current_user, audit_info, execution_globals,
                   run, result, outcome, importable, timeout, capture_output,
                   return_variables, old_targets,
                   process_vars>>
    /\ UNCHANGED <<facade_vars, ext_vars>>

\* execution_globals = self._setup_secure_execution_environment(current_user)
execute_setup_environment ==
    /\ pc = "environment"
    /\ stages' = Append(stages, Ran("environment", TRUE))
    /\ \E found \in Installations :
           /\ importable' = found
           /\ execution_globals' = _setup_secure_execution_environment(current_user, found)
    /\ pc' = "data_query"
    /\ UNCHANGED <<arguments, session_user, current_user, audit_info, code, fixes_applied,
                   run, result, outcome, timeout, capture_output, return_variables,
                   old_targets, process_vars>>
    /\ UNCHANGED <<facade_vars, ext_vars>>

\* if data_query: ...; the value of arguments["data_query"] is read here
execute_fetch_data ==
    /\ pc = "data_query"
    /\ \E data_query \in DataQueries :
           IF ~data_query.given
           THEN /\ pc' = "exec"
                /\ UNCHANGED <<stages, execution_globals, result, outcome>>
           ELSE \E fetched \in {_fetch_data_from_query(data_query, store)} :
                    /\ stages' = Append(stages, Ran("data_query", fetched.exc = NoException))
                    /\ IF fetched.exc # NoException
                       THEN /\ Return([success |-> FALSE,
                                       error |-> <<"Error fetching data: ">> \o fetched.exc.msg,
                                       output |-> <<>>, variables |-> EmptyDict,
                                       user_context |-> current_user])
                            /\ UNCHANGED execution_globals
                       ELSE /\ execution_globals' =
                                   Update(execution_globals,
                                          Bindings({<<"data", Value("list", fetched.rows)>>}))
                            /\ pc' = "exec"
                            /\ UNCHANGED <<result, outcome>>
    /\ UNCHANGED <<arguments, session_user, current_user, audit_info, code, fixes_applied,
                   run, importable, timeout, capture_output,
                   return_variables, old_targets,
                   process_vars>>
    /\ UNCHANGED <<facade_vars, ext_vars>>

\* the values of arguments.get("timeout", 30): the default, and one on each side of 1..300
Timeouts == {0, 30, 1000}

\* _execute_code_with_timeout up to the end of exec: with capture_output the two context
\* managers save the streams and put the buffers in their place, then exec runs
execute_code_with_timeout_exec ==
    /\ pc = "exec"
    /\ stages' = Append(stages, Ran("exec", TRUE))
    /\ \E t \in Timeouts, c \in BOOLEAN, r \in {<<>>, <<"math">>} :
           /\ timeout' = t
           /\ capture_output' = c
           /\ return_variables' = r
           /\ IF c
              THEN /\ old_targets' = <<sys>>
                   /\ sys' = [stdout |-> "stdout_capture", stderr |-> "stderr_capture"]
              ELSE UNCHANGED <<old_targets, sys>>
    /\ \E after \in {Exec(code, execution_globals, attrs, store,
                          AvailableLibraries(importable))} :
           /\ run' = IF capture_output' /\ after.exc.type = "UnicodeEncodeError"
                     THEN [after EXCEPT !.exc.msg =
                              SubSeq(@, 1, Len(@) - 1)
                                  \o <<"Unicode encoding error during code execution. ",
                                       "Code contains characters that cannot be encoded. ",
                                       "Original error: ", @[Len(@)]>>]
                     ELSE after
           /\ execution_globals' = after.globals
           /\ attrs' = after.attrs
           /\ store' = after.store
    /\ pc' = "extract"
    /\ UNCHANGED <<arguments, session_user, current_user, audit_info, code, fixes_applied,
                   result, outcome, importable>>
    /\ UNCHANGED <<facade_vars, ext_vars>>

\* the with statement that puts the streams back only when exec raised nothing
execute_code_with_timeout_restore_on_success ==
    /\ pc = "extract"
    /\ IF old_targets # <<>> /\ run.exc = NoException
       THEN sys' = old_targets[1] /\ old_targets' = <<>>
       ELSE UNCHANGED <<sys, old_targets>>
    /\ IF run.exc.base = "BaseException"
       THEN Propagate(run.exc)
       ELSE Return(ExecutionResult(run, code, capture_output, return_variables,
                                   current_user, audit_info, importable))
    /\ UNCHANGED <<arguments, session_user, current_user, audit_info, code, stages,
                   execution_globals, fixes_applied, run, importable, timeout,
                   capture_output, return_variables, attrs, store>>
    /\ UNCHANGED <<facade_vars, ext_vars>>

\* _execute_code_with_timeout from the end of exec: the with statement is left, which
\* puts the saved streams back whether exec returned or raised; then the result is built,
\* or the exception neither except clause catches goes on
execute_code_with_timeout ==
    /\ pc = "extract"
    /\ IF old_targets # <<>>
       THEN sys' = old_targets[1] /\ old_targets' = <<>>
       ELSE UNCHANGED <<sys, old_targets>>
    /\ IF run.exc.base = "BaseException"
       THEN Propagate(run.exc)
       ELSE Return(ExecutionResult(run, code, capture_output, return_variables,
                                   current_user, audit_info, importable))
    /\ UNCHANGED <<arguments, session_user, current_user, audit_info, code, stages,
                   execution_globals, fixes_applied, run, importable, timeout,
                   capture_output, return_variables, attrs, store>>
    /\ UNCHANGED <<facade_vars, ext_vars>>

\* the caller has the result; the namespace is dropped, the process and the store stay
finish_request ==
    /\ pc = "done"
    /\ pc' = "idle"
    /\ arguments' = NoArguments
    /\ session_user' = ""
    /\ current_user' = ""
    /\ audit_info' = [execution_id |-> ""]
    /\ code' = <<>>
    /\ stages' = <<>>
    /\ execution_globals' = EmptyDict
    /\ fixes_applied' = <<>>
    /\ run' = NoRun
    /\ result' = NoResult
    /\ outcome' = "pending"
    /\ importable' = {}
    /\ timeout' = 30
    /\ capture_output' = TRUE
    /\ return_variables' = <<>>
    /\ old_targets' = <<>>
    /\ attrs' = {[a EXCEPT !.mine = FALSE] : a \in attrs}
    /\ UNCHANGED <<store, sys>>
    /\ UNCHANGED <<facade_vars, ext_vars>>

Next ==
    \/ call_execute
    \/ execute_check_code
    \/ execute_enter_context
    \/ execute_scan
    \/ execute_check_imports
    \/ execute_remove_imports
    \/ execute_sanitize
    \/ execute_preprocess
    \/ execute_setup_environment
    \/ execute_fetch_data
    \/ execute_code_with_timeout_exec
    \/ execute_code_with_timeout
    \/ finish_request

Spec == Init /\ [][Next]_vars

(***************************************************************************)
(* The tools facade: FrappeAssistantAPI (utils/tool_api.py) and the        *)
(* ReportTools functions it hands the report calls to. One action per      *)
(* method. granted is the set of doctypes and reports on which the host    *)
(* answers has_permission(..., "read") with true for the session user;     *)
(* facade_log lists, in order, what the call asked of the host.            *)
(***************************************************************************)
\* the reports of the store, as frappe.get_all orders them by report_name
Reports ==
    << [name |-> "R", report_type |-> "Query Report"],
       [name |-> "S", report_type |-> "Report Builder"] >>

\* one call of the facade: the arguments, what it asked of the host, and what it returned
FacadeCall(op, target, granted, log, reply) ==
    /\ facade_call' = [op |-> op, target |-> target, granted |-> granted]
    /\ facade_log' = log
    /\ facade_reply' = reply
    /\ UNCHANGED <<pc, request_vars, process_vars, ext_vars>>

\* ReportTools.list_reports: every report is fetched, then the list is filtered
list_reports ==
    \E granted \in SUBSET {"T", "U", "R", "S"} :
        FacadeCall("list_reports", "Report", granted,
                   <<<<"get_all", "Report">>>>
                       \o [i \in 1..Len(Reports) |-> <<"has_permission", Reports[i].name>>],
                   [success |-> TRUE,
                    reports |-> SelectSeq(Reports, LAMBDA report : report.name \in granted)])

\* ReportTools.get_report_columns
get_report_info ==
    \E report_name \in {"R", "S", "missing"}, granted \in SUBSET {"T", "U", "R", "S"} :
        IF \A i \in 1..Len(Reports) : Reports[i].name # report_name
        THEN FacadeCall("get_report_info", report_name, granted,
                        <<<<"exists", report_name>>>>,
                        [success |-> FALSE, error |-> <<"Report '", report_name, "' not found">>])
        ELSE IF report_name \notin granted
        THEN FacadeCall("get_report_info", report_name, granted,
                        <<<<"exists", report_name>>, <<"has_permission", report_name>>>>,
                        [success |-> FALSE,
                         error |-> <<"No permission to access report '", report_name, "'">>])
        ELSE FacadeCall("get_report_info", report_name, granted,
                        <<<<"exists", report_name>>, <<"has_permission", report_name>>,
                          <<"get_doc", report_name>>>>,
                        [success |-> TRUE, report_name |-> report_name])

\* ReportTools.execute_report
generate_report ==
    \E report_name \in {"R", "S", "missing"}, granted \in SUBSET {"T", "U", "R", "S"} :
        IF \A i \in 1..Len(Reports) : Reports[i].name # report_name
        THEN FacadeCall("generate_report", report_name, granted,
                        <<<<"exists", report_name>>>>,
                        [success |-> FALSE, error |-> <<"Report '", report_name, "' not found">>])
        ELSE IF report_name \notin granted
        THEN FacadeCall("generate_report", report_name, granted,
                        <<<<"exists", report_name>>, <<"has_permission", report_name>>>>,
                        [success |-> FALSE,
                         error |-> <<"No permission to access report '", report_name, "'">>])
        ELSE LET report_doc == CHOOSE report \in {Reports[i] : i \in 1..Len(Reports)} :
                                   report.name = report_name
             IN  IF report_doc.report_type = "Report Builder"
                 THEN FacadeCall("generate_report", report_name, granted,
                                 <<<<"exists", report_name>>, <<"has_permission", report_name>>,
                                   <<"get_doc", report_name>>>>,
                                 [success |-> FALSE,
                                  error |-> <<"Report Builder reports are not supported">>])
                 ELSE FacadeCall("generate_report", report_name, granted,
                                 <<<<"exists", report_name>>, <<"has_permission", report_name>>,
                                   <<"get_doc", report_name>>, <<"execute", report_name>>>>,
                                 [success |-> TRUE, report_name |-> report_name,
                                  report_type |-> report_doc.report_type])

\* FrappeAssistantAPI.get_document: "n" is the document the doctype has
get_document ==
    \E doctype \in {"T", "U"}, name \in {"n", "missing"},
       granted \in SUBSET {"T", "U", "R", "S"} :
        IF doctype \notin granted
        THEN FacadeCall("get_document", doctype, granted,
                        <<<<"has_permission", doctype>>>>,
                        [success |-> FALSE, error |-> <<"No permission to read ", doctype>>])
        ELSE FacadeCall("get_document", doctype, granted,
                        <<<<"has_permission", doctype>>, <<"get_doc", doctype>>>>,
                        IF name = "n" THEN [success |-> TRUE, data |-> <<doctype, name>>]
                        ELSE [success |-> FALSE,
                              error |-> <<doctype, " '", name, "' not found">>])

\* FrappeAssistantAPI.get_documents
get_documents ==
    \E doctype \in {"T", "U"}, granted \in SUBSET {"T", "U", "R", "S"} :
        IF doctype \notin granted
        THEN FacadeCall("get_documents", doctype, granted,
                        <<<<"has_permission", doctype>>>>,
                        [success |-> FALSE, error |-> <<"No permission to read ", doctype>>])
        ELSE FacadeCall("get_documents", doctype, granted,
                        <<<<"has_permission", doctype>>, <<"get_all", doctype>>>>,
                        [success |-> TRUE, data |-> <<<<doctype, "n">>>>, count |-> 1])

\* FrappeAssistantAPI.search: doctype "" is the call without a doctype
search ==
    \E doctype \in {"", "T", "U"}, granted \in SUBSET {"T", "U", "R", "S"} :
        IF doctype # "" /\ doctype \notin granted
        THEN FacadeCall("search", doctype, granted,
                        <<<<"has_permission", doctype>>>>,
                        [success |-> FALSE, error |-> <<"No permission to search ", doctype>>])
        ELSE IF doctype # ""
        THEN FacadeCall("search", doctype, granted,
                        <<<<"has_permission", doctype>>, <<"get_all", doctype>>>>,
                        [success |-> TRUE, results |-> <<"n">>, count |-> 1])
        ELSE FacadeCall("search", doctype, granted, <<>>,
                        [success |-> TRUE, results |-> <<>>, count |-> 0])

\* FrappeAssistantAPI.get_doctype_info
get_doctype_info ==
    \E doctype \in {"T", "U"}, granted \in SUBSET {"T", "U", "R", "S"} :
        IF doctype \notin granted
        THEN FacadeCall("get_doctype_info", doctype, granted,
                        <<<<"has_permission", doctype>>>>,
                        [success |-> FALSE,
                         error |-> <<"No permission to access ", doctype, " metadata">>])
        ELSE FacadeCall("get_doctype_info", doctype, granted,
                        <<<<"has_permission", doctype>>, <<"get_meta", doctype>>>>,
                        [success |-> TRUE, fields |-> <<>>, links |-> <<>>])

FacadeNext ==
    \/ list_reports
    \/ get_report_info
    \/ generate_report
    \/ get_document
    \/ get_documents
    \/ search
    \/ get_doctype_info

FacadeSpec == Init /\ [][FacadeNext]_vars

(***************************************************************************)
(* FrappeProxyAdapter (frappe_bridge_adapter_v2.py) and the Frappe site it *)
(* talks to over HTTP.                                                     *)
(*                                                                         *)
(* adapter is the object: enable_cache, cache_ttl, max_retries and _cache, *)
(* a dict from cache keys to CacheEntry records [data, expires_at].        *)
(* site is the other end: server gives, for each doctype, its documents    *)
(* [name, modified] in the order a list request returns them; outage is    *)
(* the number of HTTP requests, from now on, that fail before the site     *)
(* answers again; rev counts the writes the site has done; now is what     *)
(* datetime.now() returns, in seconds.  Time passes between calls (tick);  *)
(* the backoff sleeps of a call do not move the clock of the model.        *)
(* A doctype, a path and a cache key are strings, that is token sequences. *)
(***************************************************************************)
DocTypes == {<<"Customer">>, <<"Customer", " ", "Group">>}

\* str(n), for the numbers that appear in paths and query parameters
str(n) == <<"0", "1", "2", "3", "4", "5", "6", "7", "8", "9">>[n + 1]

\* Python's None
None == [none |-> TRUE]

\* f'/api/resource/{doctype}' and f'/api/resource/{doctype}/{name}'
ResourcePath(doctype, name) ==
    <<"/api/resource/">> \o doctype \o (IF name = "" THEN <<>> ELSE <<"/", name>>)

\* class CacheEntry: __init__
CacheEntry(data, ttl, now) == [data |-> data, expires_at |-> now + ttl]

\* CacheEntry.is_expired, with >= in the place of >
is_expired_at_ttl(entry, now) == now >= entry.expires_at

\* CacheEntry.is_expired
is_expired(entry, now) == now > entry.expires_at

\* params of a list request are [limit, offset]; filters, fields and order_by are the
\* defaults in every call; json.dumps(params, sort_keys=True) orders the keys
_get_cache_key(method, path, params) ==
    <<method, ":">> \o path
        \o (IF params = None
            THEN <<>>
            ELSE <<":", "{", "fields=[*]", "filters={}",
                   "limit_page_length", str(params.limit),
                   "limit_start", str(params.offset), "order_by=modified desc", "}">>)

\* returns the data found, or None, and the adapter with the expired entry deleted
_get_from_cache(self, cache_key, now) ==
    IF ~self.enable_cache
    THEN [data |-> None, self |-> self]
    ELSE IF cache_key \notin DOMAIN self._cache
    THEN [data |-> None, self |-> self]
    ELSE IF ~is_expired(self._cache[cache_key], now)
    THEN [data |-> self._cache[cache_key].data, self |-> self]
    ELSE [data |-> None,
          self |-> [self EXCEPT !._cache =
                        [k \in DOMAIN self._cache \ {cache_key} |-> self._cache[k]]]]

_set_in_cache(self, cache_key, data, now) ==
    IF self.enable_cache
    THEN [self EXCEPT !._cache =
              [k \in DOMAIN self._cache \cup {cache_key} |->
                  IF k = cache_key THEN CacheEntry(data, self.cache_ttl, now)
                  ELSE self._cache[k]]]
    ELSE self

\* the invalidation with the key compared to the path of the doctype's list
_invalidate_cache_for_doctype_list_only(self, doctype) ==
    [self EXCEPT !._cache =
        [k \in {key \in DOMAIN self._cache :
                    ~StartsWith(key, <<"GET", ":">> \o ResourcePath(doctype, "") \o <<":">>)}
            |-> self._cache[k]]]

\* keys_to_delete: every key with doctype in key
_invalidate_cache_for_doctype(self, doctype) ==
    [self EXCEPT !._cache =
        [k \in {key \in DOMAIN self._cache : ~Contains(key, doctype)} |-> self._cache[k]]]

\* _make_httpx_request and _make_urllib_request: one HTTP request and what the site does
\* with it. ok = FALSE stands for every exception they raise (connection error, 4xx, 5xx)
_make_httpx_request(s, method, doctype, name, params, json_data) ==
    LET docs == s.server[doctype]
        at == {i \in 1..Len(docs) : docs[i].name = name}
        failed == [ok |-> FALSE, response |-> None,
                   site |-> [s EXCEPT !.outage = IF @ > 0 THEN @ - 1 ELSE 0]]
        read(data) == [ok |-> TRUE, response |-> [data |-> data], site |-> s]
        written(data, new_docs) ==
            [ok |-> TRUE, response |-> [data |-> data],
             site |-> [s EXCEPT !.server[doctype] = new_docs, !.rev = @ + 1]]
        stamped(n) == [name |-> n, modified |-> s.rev + 1]
    IN  IF s.outage > 0 THEN failed
        ELSE IF method = "GET" /\ name = ""
        THEN LET last == IF params.offset + params.limit < Len(docs)
                         THEN params.offset + params.limit ELSE Len(docs)
             IN  read(SubSeq(docs, params.offset + 1, last))
        ELSE IF method = "POST"
        THEN IF \E i \in 1..Len(docs) : docs[i].name = json_data
             THEN failed
             ELSE written(stamped(json_data), Append(docs, stamped(json_data)))
        ELSE IF at = {} THEN failed
        ELSE LET i == CHOOSE i \in at : TRUE
             IN  IF method = "GET" THEN read(docs[i])
                 ELSE IF method = "PUT"
                 THEN written(stamped(name), [docs EXCEPT ![i] = stamped(name)])
                 ELSE written(<<>>, SubSeq(docs, 1, i - 1) \o SubSeq(docs, i + 1, Len(docs)))

\* the function _make_request as written, run once: [raised, response, self, site, http],
\* http the number of HTTP requests it made
_make_request_body(self, s, method, doctype, name, params, json_data, use_cache) ==
    LET cache_key == _get_cache_key(method, ResourcePath(doctype, name), params)
        Request(cached) ==
            Only({IF sent.ok
                  THEN [raised |-> FALSE, response |-> sent.response,
                        self |-> IF method = "GET" /\ use_cache
                                 THEN _set_in_cache(cached.self, cache_key, sent.response,
                                                    s.now)
                                 ELSE cached.self,
                        site |-> sent.site, http |-> 1]
                  ELSE [raised |-> TRUE, response |-> "FrappeAPIError",
                        self |-> cached.self, site |-> sent.site, http |-> 1] :
                  sent \in {_make_httpx_request(s, method, doctype, name, params,
                                                json_data)}})
    IN  Only({IF cached.data # None
              THEN [raised |-> FALSE, response |-> cached.data, self |-> cached.self,
                    site |-> s, http |-> 0]
              ELSE Request(cached) :
              cached \in {IF method = "GET" /\ use_cache
                          THEN _get_from_cache(self, cache_key, s.now)
                          ELSE [data |-> None, self |-> self]}})

\* with_retry(max_retries, backoff_factor): wrapper, from the given attempt on. The
\* sleep between two attempts changes nothing the model holds
RECURSIVE with_retry(_, _, _, _, _, _, _, _, _, _)
with_retry(max_retries, attempt, self, s, method, doctype, name, params, json_data, use_cache) ==
    Only({IF once.raised /\ attempt < max_retries
          THEN Only({[again EXCEPT !.http = @ + once.http] :
                     again \in {with_retry(max_retries, attempt + 1, once.self, once.site,
                                           method, doctype, name, params, json_data,
                                           use_cache)}})
          ELSE once :
          once \in {_make_request_body(self, s, method, doctype, name, params, json_data,
                                       use_cache)}})

\* @with_retry(max_retries=3, backoff_factor=0.5) def _make_request
_make_request(self, s, method, doctype, name, params, json_data, use_cache) ==
    with_retry(3, 0, self, s, method, doctype, name, params, json_data, use_cache)

\* the while True loop of search_documents without its second break
RECURSIVE Paginate_until_empty(_, _, _, _, _, _, _, _)
Paginate_until_empty(self, s, doctype, limit, current_offset, all_results, pages, http) ==
    LET Done(page, raised, response) ==
            [raised |-> raised, response |-> response, self |-> page.self,
             site |-> page.site, http |-> http + page.http, pages |-> pages + 1]
    IN  Only({IF page.raised THEN Done(page, TRUE, page.response)
              ELSE IF page.response.data = <<>> THEN Done(page, FALSE, all_results)
              ELSE Paginate_until_empty(page.self, page.site, doctype, limit, current_offset + limit,
                      all_results \o page.response.data, pages + 1, http + page.http) :
              page \in {_make_request(self, s, "GET", doctype, "",
                                      [limit |-> limit, offset |-> current_offset], None,
                                      TRUE)}})

\* the while True loop of search_documents; pages counts the calls of _make_request
RECURSIVE Paginate(_, _, _, _, _, _, _, _)
Paginate(self, s, doctype, limit, current_offset, all_results, pages, http) ==
    LET Done(page, raised, response) ==
            [raised |-> raised, response |-> response, self |-> page.self,
             site |-> page.site, http |-> http + page.http, pages |-> pages + 1]
    IN  Only({IF page.raised THEN Done(page, TRUE, page.response)
              ELSE IF page.response.data = <<>> THEN Done(page, FALSE, all_results)
              ELSE IF Len(page.response.data) < limit
              THEN Done(page, FALSE, all_results \o page.response.data)
              ELSE Paginate(page.self, page.site, doctype, limit, current_offset + limit,
                      all_results \o page.response.data, pages + 1, http + page.http) :
              page \in {_make_request(self, s, "GET", doctype, "",
                                      [limit |-> limit, offset |-> current_offset], None,
                                      TRUE)}})

\* create_document, update_document and delete_document: the request, then the
\* invalidation, which an exception of the request skips
WriteDocument(self, s, method, doctype, name, json_data) ==
    Only({IF sent.raised THEN sent
          ELSE [sent EXCEPT
                   !.self = IF self.enable_cache
                            THEN _invalidate_cache_for_doctype(sent.self, doctype)
                            ELSE sent.self,
                   !.response = IF method = "DELETE" THEN [success |-> TRUE]
                                ELSE sent.response.data] :
          sent \in {_make_request(self, s, method, doctype, name, None, json_data, FALSE)}})

\* the loop of batch_create_documents with the break dropped
RECURSIVE BatchFrom_without_break(_, _, _, _, _, _, _, _)
BatchFrom_without_break(self, s, doctype, documents, stop_on_error, i, results, http) ==
    LET Results(created) ==
            IF ~created.raised
            THEN [results EXCEPT !.created = Append(@, created.response),
                                 !.count = @ + 1,
                                 !.attempted = Append(@, i)]
            ELSE [results EXCEPT
                     !.failed = Append(@, [index |-> i, data |-> documents[i + 1],
                                           error |-> created.response]),
                     !.errors = @ + 1,
                     !.attempted = Append(@, i)]
    IN  IF i >= Len(documents)
        THEN [raised |-> FALSE, response |-> results, self |-> self, site |-> s,
              http |-> http]
        ELSE Only({BatchFrom_without_break(created.self, created.site, doctype, documents, stop_on_error,
                         i + 1, Results(created), http + created.http) :
                   created \in {WriteDocument(self, s, "POST", doctype, "",
                                              documents[i + 1])}})

\* the loop of batch_create_documents from index i on. results.attempted lists, in
\* order, the indexes for which create_document was called; it is not part of the
\* dict the code returns
RECURSIVE BatchFrom(_, _, _, _, _, _, _, _)
BatchFrom(self, s, doctype, documents, stop_on_error, i, results, http) ==
    LET Results(created) ==
            IF ~created.raised
            THEN [results EXCEPT !.created = Append(@, created.response),
                                 !.count = @ + 1,
                                 !.attempted = Append(@, i)]
            ELSE [results EXCEPT
                     !.failed = Append(@, [index |-> i, data |-> documents[i + 1],
                                           error |-> created.response]),
                     !.errors = @ + 1,
                     !.attempted = Append(@, i)]
    IN  IF i >= Len(documents)
        THEN [raised |-> FALSE, response |-> results, self |-> self, site |-> s,
              http |-> http]
        ELSE Only({IF created.raised /\ stop_on_error
                   THEN [raised |-> FALSE, response |-> Results(created),
                         self |-> created.self, site |-> created.site,
                         http |-> http + created.http]
                   ELSE BatchFrom(created.self, created.site, doctype, documents, stop_on_error,
                         i + 1, Results(created), http + created.http) :
                   created \in {WriteDocument(self, s, "POST", doctype, "",
                                              documents[i + 1])}})

\* a call of an adapter method has returned or raised: r is what it leaves behind.
\* http counts the HTTP requests of the call, removed is the set of cache keys it deleted
AdapterCall(op, args, r) ==
    /\ adapter_call.number < MaxCalls
    /\ adapter' = r.self
    /\ site' = r.site
    /\ adapter_call' = [number |-> adapter_call.number + 1, op |-> op, args |-> args,
                        raised |-> r.raised, response |-> r.response, http |-> r.http,
                        removed |-> DOMAIN adapter._cache \ DOMAIN r.self._cache]
    /\ stored_at' = [k \in DOMAIN r.self._cache |->
                        IF k \in DOMAIN adapter._cache
                               /\ adapter._cache[k] = r.self._cache[k]
                        THEN stored_at[k] ELSE site.now]
    /\ UNCHANGED <<pc, request_vars, process_vars, facade_vars, prepared, mail, mcp>>

\* FrappeProxyAdapter(enable_cache, cache_ttl, max_retries): a new object
adapter_init ==
    \E enable_cache \in BOOLEAN, cache_ttl \in {1}, max_retries \in {1, 3} :
        /\ adapter_call.number = 0
        /\ AdapterCall("__init__", <<>>,
                       [raised |-> FALSE, response |-> None, site |-> site, http |-> 0,
                        self |-> [enable_cache |-> enable_cache, cache_ttl |-> cache_ttl,
                                  max_retries |-> max_retries, _cache |-> <<>>]])

\* a lookup by a caller of _get_from_cache, at time site.now
adapter_get_from_cache ==
    \E cache_key \in DOMAIN adapter._cache
                     \cup {_get_cache_key("GET", ResourcePath(<<"Customer">>, "1"), None)} :
        \E found \in {_get_from_cache(adapter, cache_key, site.now)} :
            AdapterCall("_get_from_cache",
                        [cache_key |-> cache_key, at |-> site.now,
                         entry |-> IF cache_key \in DOMAIN adapter._cache
                                   THEN adapter._cache[cache_key] ELSE None,
                         stored_at |-> IF cache_key \in DOMAIN stored_at
                                       THEN stored_at[cache_key] ELSE 0],
                        [raised |-> FALSE, response |-> found.data, self |-> found.self,
                         site |-> site, http |-> 0])

adapter_clear_cache ==
    AdapterCall("clear_cache", <<>>,
                [raised |-> FALSE, response |-> None, site |-> site, http |-> 0,
                 self |-> [adapter EXCEPT !._cache = <<>>]])

adapter_search_documents ==
    \E doctype \in {<<"Customer">>}, limit \in 1..2, offset \in 0..1,
       auto_paginate \in BOOLEAN :
        \E r \in {IF auto_paginate
                  THEN Paginate(adapter, site, doctype, limit, offset, <<>>, 0, 0)
                  ELSE _make_request(adapter, site, "GET", doctype, "",
                                     [limit |-> limit, offset |-> offset], None, TRUE)} :
            AdapterCall("search_documents",
                        [doctype |-> doctype, limit |-> limit, offset |-> offset,
                         auto_paginate |-> auto_paginate,
                         pages |-> IF auto_paginate THEN r.pages ELSE 1],
                        [raised |-> r.raised,
                         response |-> IF r.raised \/ auto_paginate THEN r.response
                                      ELSE r.response.data,
                         self |-> r.self, site |-> r.site, http |-> r.http])

adapter_get_document ==
    \E doctype \in DocTypes, name \in {"1"} :
        \E r \in {_make_request(adapter, site, "GET", doctype, name, None, None, TRUE)} :
            AdapterCall("get_document", [doctype |-> doctype, name |-> name],
                        [r EXCEPT !.response = IF r.raised THEN @ ELSE @.data])

create_document ==
    \E name \in {"1", "2"} :
        AdapterCall("create_document", [doctype |-> <<"Customer", " ", "Group">>, name |-> name],
                    WriteDocument(adapter, site, "POST", <<"Customer", " ", "Group">>, "",
                                  name))

update_document ==
    \E doctype \in DocTypes :
        AdapterCall("update_document", [doctype |-> doctype, name |-> "1"],
                    WriteDocument(adapter, site, "PUT", doctype, "1", "1"))

delete_document ==
    \E name \in {"1", str(MaxDocs + 1)} :
        AdapterCall("delete_document", [doctype |-> <<"Customer">>, name |-> name],
                    WriteDocument(adapter, site, "DELETE", <<"Customer">>, name, None))

batch_create_documents ==
    \E documents \in {<<>>, <<"2", "3">>, <<"1", "2">>, <<"2", "1">>, <<"2", "2">>},
       stop_on_error \in BOOLEAN :
        AdapterCall("batch_create_documents",
                    [doctype |-> <<"Customer", " ", "Group">>, documents |-> documents,
                     stop_on_error |-> stop_on_error],
                    BatchFrom(adapter, site, <<"Customer", " ", "Group">>, documents,
                              stop_on_error, 0,
                              [created |-> <<>>, failed |-> <<>>, count |-> 0, errors |-> 0,
                               attempted |-> <<>>], 0))

\* a second passes
tick ==
    /\ site.now < MaxTime
    /\ site' = [site EXCEPT !.now = @ + 1]
    /\ UNCHANGED <<pc, request_vars, process_vars, facade_vars, adapter, adapter_call,
                   stored_at, prepared, mail, mcp>>

\* the site, or the network to it, goes down for the next requests
site_outage ==
    /\ site.outage = 0
    /\ adapter_call.number = 0
    /\ \E requests \in {1, 2, 4} : site' = [site EXCEPT !.outage = requests]
    /\ UNCHANGED <<pc, request_vars, process_vars, facade_vars, adapter, adapter_call,
                   stored_at, prepared, mail, mcp>>

AdapterNext ==
    \/ adapter_init
    \/ site_outage
    \/ adapter_search_documents
    \/ adapter_get_document
    \/ batch_create_documents

AdapterSpec == Init /\ [][AdapterNext]_vars

CacheNext ==
    \/ adapter_init
    \/ tick
    \/ adapter_get_from_cache
    \/ adapter_clear_cache
    \/ adapter_search_documents
    \/ adapter_get_document
    \/ create_document
    \/ update_document
    \/ delete_document

CacheSpec == Init /\ [][CacheNext]_vars

(***************************************************************************)
(* ReportTools.execute_report on a prepared report                         *)
(* (plugins/core/tools/report_tools.py), which tools.generate_report       *)
(* (utils/tool_api.py) and the generate_report tool both call.             *)
(*                                                                         *)
(* prepared holds the call: its pc ("idle", "polling", "done"), the locals *)
(* of _handle_prepared_report_execution, the Prepared Report document of   *)
(* the background job (job, error_message; rows tells whether the report   *)
(* has result rows), the status the last poll observed, what the handler   *)
(* returned (handled) and what execute_report returned (result).  Times    *)
(* are in sixteenths of a second, so that the intervals 2, 3, 4.5, 6.75,   *)
(* 10.125 and 15 seconds are the integers 32, 48, 72, 108, 162 and 240.    *)
(***************************************************************************)
\* execute_report from the return of _execute_query_report on: debug_info
ReportResult(handled) ==
    LET data == IF "result" \in DOMAIN handled THEN handled.result ELSE <<>>
        debug_info ==
            [success |-> TRUE, report_name |-> "R", report_type |-> "Query Report",
             data |-> data,
             columns |-> IF "columns" \in DOMAIN handled THEN handled.columns ELSE <<>>,
             message |-> IF "message" \in DOMAIN handled THEN handled.message ELSE None,
             filters_applied |-> <<>>,
             auto_filters_added |-> "Automatic date range and company filters",
             raw_result_keys |-> DOMAIN handled,
             data_count |-> Len(data), result_type |-> "dict"]
    IN  IF data = <<>>
        THEN Update(debug_info,
                    [debug_info |->
                        [result_structure |-> handled,
                         error_from_result |-> IF "error" \in DOMAIN handled
                                               THEN handled.error ELSE None]])
        ELSE debug_info

\* _handle_prepared_report_execution has returned handled, and execute_report returns
ReportReturn(locals, handled) ==
    /\ prepared' = Update(locals, [pc |-> "done", handled |-> handled,
                                   result |-> ReportResult(handled)])
    /\ UNCHANGED <<pc, request_vars, process_vars, facade_vars, adapter, site,
                   adapter_call, stored_at, mail, mcp>>

\* execute_report("R") on a Query Report with prepared_report set, up to the return or
\* to the queueing of the background job. timeout_field is the Report's timeout, 0 when
\* it is not set; has_completed: get_completed_prepared_report finds one; rows: the
\* report has result rows; run_raises: the direct run raises
execute_report ==
    /\ prepared.pc = "idle"
    /\ \E timeout_field \in {0, 30, 120, 600}, has_completed \in BOOLEAN, rows \in BOOLEAN,
          run_raises \in BOOLEAN, queue_raises \in BOOLEAN :
           LET report_timeout == IF timeout_field = 0 THEN 120 ELSE timeout_field
               locals == [pc |-> "polling", report_timeout |-> report_timeout,
                          rows |-> rows, job |-> "Queued", error_message |-> "",
                          max_wait_time |-> 16 * (IF report_timeout < 300
                                                  THEN report_timeout ELSE 300),
                          poll_interval |-> 32, elapsed_time |-> 0, polls |-> 0,
                          observed |-> ""]
           IN  IF has_completed /\ rows
               THEN ReportReturn(locals,
                                 [result |-> <<"row">>, columns |-> <<"column">>,
                                  message |-> None, prepared_report |-> TRUE,
                                  source |-> "cached", prepared_report_name |-> "PR-0",
                                  generated_at |-> "modified", status |-> "completed"])
               ELSE IF report_timeout < 60 /\ ~run_raises /\ rows
               THEN ReportReturn(locals,
                                 [result |-> <<"row">>, columns |-> <<"column">>,
                                  message |-> None, prepared_report |-> FALSE,
                                  source |-> "direct_execution", status |-> "completed"])
               ELSE IF queue_raises
               THEN /\ prepared' = Update(locals,
                                          [pc |-> "done", handled |-> None,
                                           result |-> [success |-> FALSE,
                                                       error |-> "make_prepared_report"]])
                    /\ UNCHANGED <<pc, request_vars, process_vars, facade_vars, adapter,
                                   site, adapter_call, stored_at, mail, mcp>>
               ELSE /\ prepared' = locals
                    /\ UNCHANGED <<pc, request_vars, process_vars, facade_vars, adapter,
                                   site, adapter_call, stored_at, mail, mcp>>

\* the background worker takes the queued job, and ends it
prepared_report_job ==
    /\ prepared.pc = "polling"
    /\ \/ prepared.job = "Queued" /\ prepared' = [prepared EXCEPT !.job = "Started"]
       \/ prepared.job = "Started" /\ prepared' = [prepared EXCEPT !.job = "Completed"]
       \/ /\ prepared.job = "Started"
          /\ prepared' = [prepared EXCEPT !.job = "Error", !.error_message = "boom"]
       \/ /\ prepared.job = "Started"
          /\ prepared' = [prepared EXCEPT !.job = "Error"]
    /\ UNCHANGED <<pc, request_vars, process_vars, facade_vars, adapter, site,
                   adapter_call, stored_at, mail, mcp>>

\* the while loop of _handle_prepared_report_execution: its test and one iteration,
\* or the return after it
poll_prepared_report ==
    /\ prepared.pc = "polling"
    /\ IF prepared.elapsed_time < prepared.max_wait_time
       THEN LET slept == [prepared EXCEPT
                             !.elapsed_time = @ + prepared.poll_interval,
                             !.polls = @ + 1,
                             !.observed = prepared.job]
                wait_time_seconds == slept.elapsed_time \div 16
            IN  IF prepared.job = "Completed" /\ prepared.rows
                THEN ReportReturn(slept,
                                  [result |-> <<"row">>, columns |-> <<"column">>,
                                   message |-> None, prepared_report |-> TRUE,
                                   source |-> "background_job_completed",
                                   prepared_report_name |-> "PR-1",
                                   wait_time_seconds |-> wait_time_seconds,
                                   status |-> "completed"])
                ELSE IF prepared.job = "Error"
                THEN ReportReturn(slept,
                                  [success |-> FALSE, result |-> <<>>, columns |-> <<>>,
                                   error |-> <<"Report generation failed: ",
                                               IF prepared.error_message # ""
                                               THEN prepared.error_message
                                               ELSE "Unknown error during report generation">>,
                                   prepared_report_name |-> "PR-1", status |-> "error"])
                ELSE /\ prepared' = [slept EXCEPT
                                        !.poll_interval = IF (@ * 3) \div 2 < 240
                                                          THEN (@ * 3) \div 2 ELSE 240]
                     /\ UNCHANGED <<pc, request_vars, process_vars, facade_vars, adapter,
                                    site, adapter_call, stored_at, mail, mcp>>
       ELSE ReportReturn(prepared,
                         [result |-> <<>>, columns |-> <<>>, success |-> TRUE,
                          status |-> "timeout", prepared_report |-> TRUE,
                          prepared_report_name |-> "PR-1",
                          message |-> "Report generation is taking longer than expected",
                          retry_guidance |-> "retry with the same filters",
                          wait_time_seconds |-> prepared.elapsed_time \div 16])

ReportNext ==
    \/ execute_report
    \/ prepared_report_job
    \/ poll_prepared_report

ReportSpec == Init /\ [][ReportNext]_vars

(***************************************************************************)
(* The email tools on one Communication (plugins/core/tools/send_email.py, *)
(* modify_email_draft.py, confirm_send_email.py).                          *)
(*                                                                         *)
(* mail.comm is the Communication row of the database (None before         *)
(* send_email has inserted it), mail.outbox the messages handed to         *)
(* frappe.sendmail, mail.result the return value of the last send_email or *)
(* modify_email_draft, and mail.request[r] the confirm_send_email call of  *)
(* request r: its pc, the document it loaded, its return value.  The two   *)
(* database accesses of confirm_send_email, get_doc and db_update, are     *)
(* separate steps, because requests of one site run in several workers.    *)
(***************************************************************************)
Requests == 1..MaxRequests

\* frappe.sendmail(..., now=True) of the document comm
sendmail(outbox, comm) == Append(outbox, [subject |-> comm.subject, message |-> comm.content])

\* SendEmail.execute from Step 5 on, with _send_communication. The fields email_status
\* and delivery_status that insert() leaves unset are "" here
send_email ==
    /\ mail.comm = None
    /\ \E send_now \in BOOLEAN, sendmail_raises \in BOOLEAN :
           LET comm == [sent_or_received |-> "Sent", subject |-> "s1", content |-> "m1",
                        status |-> "Open", email_status |-> "", delivery_status |-> ""]
           IN  IF ~send_now
               THEN mail' = [mail EXCEPT
                                !.comm = comm,
                                !.result = [success |-> TRUE, sent |-> FALSE,
                                            awaiting_confirmation |-> TRUE]]
               ELSE IF sendmail_raises
               THEN mail' = [mail EXCEPT
                                !.comm = comm,
                                !.result = [success |-> FALSE,
                                            error |-> "Draft created but send failed",
                                            next_step |-> "confirm_send_email"]]
               ELSE mail' = [mail EXCEPT
                                !.comm = [comm EXCEPT !.email_status = "Open"],
                                !.outbox = sendmail(@, comm),
                                !.result = [success |-> TRUE, sent |-> TRUE]]
    /\ UNCHANGED <<pc, request_vars, process_vars, facade_vars, adapter, site,
                   adapter_call, stored_at, prepared, mcp>>

\* ModifyEmailDraft.execute
modify_email_draft ==
    /\ \E new_message \in {"", "m2"}, new_subject \in {"", "s2"} :
           IF new_message = "" /\ new_subject = ""
           THEN mail' = [mail EXCEPT
                            !.result = [success |-> FALSE,
                                        error |-> "At least one of 'message' or 'subject'"]]
           ELSE IF mail.comm = None
           THEN mail' = [mail EXCEPT
                            !.result = [success |-> FALSE, error |-> "not found"]]
           ELSE IF mail.comm.sent_or_received = "Sent" /\ mail.comm.email_status = "Sent"
           THEN mail' = [mail EXCEPT
                            !.result = [success |-> FALSE,
                                        error |-> "Cannot modify an already sent email"]]
           ELSE mail' = [mail EXCEPT
                            !.comm.content = IF new_message # "" THEN new_message ELSE @,
                            !.comm.subject = IF new_subject # "" THEN new_subject ELSE @,
                            !.result = [success |-> TRUE, sent |-> FALSE]]
    /\ UNCHANGED <<pc, request_vars, process_vars, facade_vars, adapter, site,
                   adapter_call, stored_at, prepared, mcp>>

\* ConfirmSendEmail.execute of request r up to the call of frappe.sendmail: the
\* existence test, get_doc, the already-sent test, the modifications and their save
confirm_send_email(r) ==
    /\ mail.request[r].pc = "idle"
    /\ \E modifications \in {<<>>, [content |-> "m3"]} :
           IF mail.comm = None
           THEN mail' = [mail EXCEPT
                            !.request[r] = [pc |-> "done",
                                            result |-> [success |-> FALSE,
                                                        error |-> "not found"]]]
           ELSE IF mail.comm.email_status \in {"Sent", "Delivered"}
           THEN mail' = [mail EXCEPT
                            !.request[r] = [pc |-> "done",
                                            result |-> [success |-> FALSE,
                                                        error |-> "was already sent"]]]
           ELSE LET comm == Update(mail.comm, modifications)
                IN  mail' = [mail EXCEPT
                                !.comm = comm,
                                !.request[r] = [pc |-> "sendmail", comm |-> comm,
                                                sent_before |-> Len(mail.outbox)]]
    /\ UNCHANGED <<pc, request_vars, process_vars, facade_vars, adapter, site,
                   adapter_call, stored_at, prepared, mcp>>

\* ConfirmSendEmail.execute of request r from frappe.sendmail on
confirm_send_email_sendmail(r) ==
    /\ mail.request[r].pc = "sendmail"
    /\ \E sendmail_raises \in BOOLEAN :
           LET comm == mail.request[r].comm
           IN  IF sendmail_raises
               THEN mail' = [mail EXCEPT
                                !.request[r] = Update(@, [pc |-> "done",
                                                          result |-> [success |-> FALSE,
                                                                      error |-> "sendmail"]])]
               ELSE mail' = [mail EXCEPT
                                !.outbox = sendmail(@, comm),
                                !.comm = [comm EXCEPT !.email_status = "Sent",
                                                      !.delivery_status = "Sent",
                                                      !.status = "Linked"],
                                !.request[r] = Update(@, [pc |-> "done",
                                                          result |-> [success |-> TRUE,
                                                                      sent |-> TRUE]])]
    /\ UNCHANGED <<pc, request_vars, process_vars, facade_vars, adapter, site,
                   adapter_call, stored_at, prepared, mcp>>

MailNext ==
    \/ send_email
    \/ modify_email_draft
    \/ \E r \in Requests : confirm_send_email(r)
    \/ \E r \in Requests : confirm_send_email_sendmail(r)

MailSpec == Init /\ [][MailNext]_vars

(***************************************************************************)
(* The MCP endpoint (api/fac_endpoint.py, mcp/server.py).                  *)
(*                                                                         *)
(* mcp._tool_registry is the registry of the module-level MCPServer, here  *)
(* the set of its keys.  mcp.request[r] is the tools/call request r of one *)
(* process: its pc, its authenticated user, the tools get_available_tools  *)
(* returned for that user (available_tools), the ones _import_tools has    *)
(* still to register (todo), the tool it asks for and its outcome.  Each   *)
(* access to the registry is a step of its own.                            *)
(***************************************************************************)
\* the lists registry.get_available_tools(user) returns
ToolLists ==
    {<<>>, <<"get_document">>, <<"run_python_code">>,
     <<"get_document", "run_python_code">>, <<"run_python_code", "get_document">>}

Range(s) == {s[i] : i \in DOMAIN s}

\* handle_mcp of request r up to the loop of _import_tools: authentication, the
\* assistant_enabled test, mcp._tool_registry.clear() and get_available_tools
handle_mcp(r) ==
    /\ mcp.request[r].pc = "idle"
    /\ \E user \in Users, assistant_enabled \in BOOLEAN, available_tools \in ToolLists,
          tool_name \in {"get_document", "run_python_code"} :
           IF ~assistant_enabled
           THEN mcp' = [mcp EXCEPT
                           !.request[r] = [pc |-> "done", user |-> user,
                                           available_tools |-> <<>>, todo |-> <<>>,
                                           tool_name |-> tool_name,
                                           outcome |-> "PermissionError"]]
           ELSE mcp' = [mcp EXCEPT
                           !._tool_registry = {},
                           !.request[r] = [pc |-> "_import_tools", user |-> user,
                                           available_tools |-> available_tools,
                                           todo |-> available_tools,
                                           tool_name |-> tool_name, outcome |-> ""]]
    /\ UNCHANGED <<pc, request_vars, process_vars, facade_vars, adapter, site,
                   adapter_call, stored_at, prepared, mail>>

\* one iteration of the loop of _import_tools: register_base_tool, that is mcp.add_tool
register_base_tool(r) ==
    /\ mcp.request[r].pc = "_import_tools"
    /\ mcp.request[r].todo # <<>>
    /\ mcp' = [mcp EXCEPT !._tool_registry = @ \cup {Head(mcp.request[r].todo)},
                          !.request[r].todo = Tail(@)]
    /\ UNCHANGED <<pc, request_vars, process_vars, facade_vars, adapter, site,
                   adapter_call, stored_at, prepared, mail>>

\* _import_tools has returned; MCPServer.handle routes tools/call to _handle_tools_call,
\* which tests that the tool exists
_handle_tools_call(r) ==
    /\ mcp.request[r].pc = "_import_tools"
    /\ mcp.request[r].todo = <<>>
    /\ IF mcp.request[r].tool_name \notin mcp._tool_registry
       THEN mcp' = [mcp EXCEPT !.request[r].pc = "done",
                               !.request[r].outcome = "not found"]
       ELSE mcp' = [mcp EXCEPT !.request[r].pc = "tool"]
    /\ UNCHANGED <<pc, request_vars, process_vars, facade_vars, adapter, site,
                   adapter_call, stored_at, prepared, mail>>

\* _handle_tools_call from tool = self._tool_registry[tool_name] on
call_tool(r) ==
    /\ mcp.request[r].pc = "tool"
    /\ IF mcp.request[r].tool_name \notin mcp._tool_registry
       THEN mcp' = [mcp EXCEPT !.request[r].pc = "done",
                               !.request[r].outcome = "KeyError"]
       ELSE mcp' = [mcp EXCEPT !.request[r].pc = "done",
                               !.request[r].outcome = "called"]
    /\ UNCHANGED <<pc, request_vars, process_vars, facade_vars, adapter, site,
                   adapter_call, stored_at, prepared, mail>>

McpNext ==
    \/ \E r \in Requests : handle_mcp(r)
    \/ \E r \in Requests : register_base_tool(r)
    \/ \E r \in Requests : _handle_tools_call(r)
    \/ \E r \in Requests : call_tool(r)

McpSpec == Init /\ [][McpNext]_vars

(***************************************************************************)
(* Properties.                                                             *)
(***************************************************************************)
\* the text of the request's script
Text == arguments.code.text

\* execute has returned a result
Returned == pc = "done" /\ outcome = "returned"

\* the pipeline's stages in the order of section 2 of the specification
StageOrder ==
    <<"scan", "imports", "rewrite", "sanitize", "preprocess", "environment", "data_query",
      "exec">>

\* the modules the safe tables of the Import Mediator name
SafeTableModules ==
    {"pandas", "numpy", "matplotlib", "seaborn", "frappe", "math", "datetime", "json", "re",
     "random", "statistics", "decimal", "fractions", "collections", "itertools", "functools",
     "operator", "copy", "string"}

\* the names of the stages that ran for this request, in order
StagesRun == [k \in 1..Len(stages) |-> stages[k].stage]
HasRun(stage) == \E k \in 1..Len(stages) : stages[k].stage = stage

\* C1: the stages run in pipeline order; a stage runs only after every stage before it
\* accepted the script, so exec is reached only after the scan, the import check and the
\* sanitizer accepted, in this order; and once a stage rejects, execute has returned
\* success = false and no later stage has run
C1_StagesShortCircuit ==
    /\ LET Rank(stage) == CHOOSE k \in 1..Len(StageOrder) : StageOrder[k] = stage
       IN  \A i, j \in 1..Len(stages) : i < j =>
               /\ Rank(stages[i].stage) < Rank(stages[j].stage)
               /\ stages[i].passed
    /\ HasRun("exec") =>
           \A k \in 1..4 : stages[k] = Ran(StageOrder[k], TRUE)
    /\ \A k \in 1..Len(stages) : ~stages[k].passed =>
           /\ k = Len(stages)
           /\ Returned
           /\ result.success = FALSE

\* C1 witness: the import check has rejected a script the scan accepted
C1_Witness ==
    /\ Returned
    /\ stages = <<Ran("scan", TRUE), Ran("imports", FALSE)>>
    /\ result.success = FALSE

\* C2: no script changes the data store: the documents are those the store started with
C2_StoreNeverWritten == store = InitialStore

\* some statement calls the raw query interface with a destructive verb in its argument
HasDestructiveRawQuery(text) ==
    \E k \in 1..Len(Statements(text)) :
        LET q == Statements(text)[k]
        IN  IsRawQuery(q) /\ \E l \in 1..Len(q) : Lower(q[l]) \in SqlVerbs

\* C3: once the scan has run on a script that calls frappe.db.sql with a string holding a
\* destructive verb, execute has returned a security violation and nothing else has run
C3_DestructiveRawQueryRejected ==
    (HasRun("scan") /\ HasDestructiveRawQuery(Text)) =>
        /\ Returned
        /\ StagesRun = <<"scan">>
        /\ result.success = FALSE
        /\ "security_violation" \in DOMAIN result
        /\ result.security_violation

\* an import statement, at any position of a line, of a module outside the safe tables
HasDisallowedImport(text) ==
    \E k \in 1..Len(Statements(text)) :
        /\ IsImport(Statements(text)[k])
        /\ Statements(text)[k][2] \notin SafeTableModules

\* C4: no statement of a script that holds a disallowed import has run
C4_DisallowedImportRefusedBeforeAnyStatement ==
    HasDisallowedImport(Text) => run.executed = <<>>

\* the line numbers of the import lines outside the safe tables
OffendingLineNumbers(text) ==
    {i \in 1..Len(Split(text, NL)) :
        LET stripped == Strip(Split(text, NL)[i])
        IN  /\ IsImportStatement(stripped)
            /\ ~InSafeReplacements(stripped)
            /\ FirstSafePrefix(stripped) = 0}

C6_SafeImportsAccepted ==
    (HasRun("imports") /\ ~HasDisallowedImport(Text)) => stages[2].passed

\* the import lines the check accepted, as statements
AcceptedImports(text) ==
    {Squeeze(BeforeComment(Strip(Split(text, NL)[k]))) :
        k \in {l \in 1..Len(Split(text, NL)) :
                  /\ IsImportStatement(Strip(Split(text, NL)[l]))
                  /\ IsSafe(Strip(Split(text, NL)[l]))}}

\* C7: in the namespace built for a script, every name an accepted import would have
\* introduced (the alias, else the module, or the names imported from the module) is bound
C7_AcceptedImportsBound ==
    HasRun("environment") =>
        LET IntroducedNames(q) ==
                IF q[1] = "import"
                THEN IF Len(q) >= 4 /\ q[3] = "as" THEN {q[4]} ELSE {q[2]}
                ELSE {q[k] : k \in {l \in 4..Len(q) : q[l] # ","}}
        IN  \A q \in AcceptedImports(Text) :
                IntroducedNames(q) \subseteq DOMAIN execution_globals

\* C8: no execution reads a module attribute that an earlier execution set
C8_NothingCarriedAcrossExecutions == run.observed = {}

\* C9: in the namespace built for a script, each name the environment pre-binds for the
\* optional libraries is bound to the module or to the proxy of a library that is not
\* installed
C9_LibraryNamesBoundOrDegraded ==
    HasRun("environment") =>
        \A name \in {"pd", "pandas", "np", "numpy", "plt", "matplotlib", "sns", "seaborn",
                      "go", "px", "plotly", "scipy", "stats"} :
            /\ name \in DOMAIN execution_globals
            /\ execution_globals[name].kind \in {"module", "LibraryNotInstalled"}

\* C10: every call of execute ends by returning a result whose success is a boolean
C10_ExecuteAlwaysReturnsResult ==
    pc = "done" =>
        /\ outcome = "returned"
        /\ "success" \in DOMAIN result
        /\ result.success \in BOOLEAN

\* the script as the sanitizer receives it, and as the preprocessor receives it
CodeBeforeSanitize == _remove_dangerous_imports(_check_and_handle_imports(Text).code)
CodeBeforePreprocess == _sanitize_unicode(CodeBeforeSanitize).code

\* C11: when capture_output is set and the script raises after writing to stdout, the
\* failure result's output is everything the script printed before the exception
C11_FailureOutputHoldsPrintedText ==
    (Returned /\ HasRun("exec") /\ capture_output /\ run.exc # NoException) =>
        result.output = run.printed

\* C12: after a successful run the names of the variables mapping are exactly the names
\* the script defined outside the reserved set and the names of return_variables that
\* exist in the namespace; no name the environment builder injected is among them unless
\* it was requested
C12_VariablesAreDefinedOrRequested ==
    (Returned /\ HasRun("exec") /\ result.success) =>
        LET injected ==
                DOMAIN _setup_secure_execution_environment(current_user, importable)
                    \cup {"data"}
            defined == DOMAIN run.globals \ injected
            requested == {return_variables[i] : i \in 1..Len(return_variables)}
                             \cap DOMAIN run.globals
        IN  DOMAIN result.variables = (defined \ excluded_vars) \cup requested

\* C13: when the script raises a KeyError, AttributeError, IndexError, TypeError or
\* ValueError, the failure result carries the reason and the solution of the remediation
\* entry of that kind, whatever the exception's message
C13_RemediationOfTheExceptionKind ==
    (Returned /\ HasRun("exec")
        /\ run.exc.type \in {"KeyError", "AttributeError", "IndexError", "TypeError",
                             "ValueError"}) =>
        \E k \in 1..Len(error_enhancements) :
            /\ error_enhancements[k][1] = <<run.exc.type>>
            /\ "reason" \in DOMAIN result
            /\ "solution" \in DOMAIN result
            /\ result.reason = error_enhancements[k][2]
            /\ result.solution = error_enhancements[k][3]

\* C14: whenever the preprocessor has rewritten the script, the list of fixes it applied
\* is non-empty and is in the result execute returns, on success and on runtime failure
C14_AppliedFixesReported ==
    (Returned /\ HasRun("exec") /\ code # CodeBeforePreprocess) =>
        /\ fixes_applied # <<>>
        /\ "fixes_applied" \in DOMAIN result
        /\ result.fixes_applied = fixes_applied

\* C15: for every script that runs to success without preprocessing, the preprocessed
\* script that exec is given also runs to success, prints the same text and leaves the
\* same namespace
C15_PreprocessingPreservesBehaviour ==
    [][(pc = "exec" /\ pc' = "extract") =>
           \A plain \in {Exec(CodeBeforePreprocess, execution_globals, attrs, store,
                              AvailableLibraries(importable))} :
               plain.exc = NoException =>
                   /\ run'.exc = NoException
                   /\ run'.printed = plain.printed
                   /\ run'.globals = plain.globals]_vars

\* C16: the timeout of the request, clamped into 1..300, is recorded in the metadata of
\* the result of the execution
C16_TimeoutClampedAndRecorded ==
    (Returned /\ HasRun("exec")) =>
        /\ "timeout" \in DOMAIN result.execution_info
        /\ result.execution_info.timeout =
               (IF timeout < 1 THEN 1 ELSE IF timeout > 300 THEN 300 ELSE timeout)

\* C17: outside the with statement of _execute_code_with_timeout the process's stdout
\* and stderr are the streams it started with: once the call has returned or let an
\* exception through, nothing is left redirected and nothing is left saved
C17_StreamsRestored ==
    pc # "extract" => (sys = StandardStreams /\ old_targets = <<>>)

\* C17 witness: a captured run whose script raised a UnicodeEncodeError has returned
\* with the streams back in place
C17_Witness ==
    /\ Returned /\ HasRun("exec") /\ capture_output
    /\ sys = StandardStreams
    /\ run.exc.type = "UnicodeEncodeError"

\* C18: the sanitizer accepts every script; the code it hands on has the length of the
\* code it was given, a space at each surrogate and every other character unchanged, and
\* its warning gives the number of surrogates when there is one
C18_SurrogatesReplacedBySpaces ==
    /\ HasRun("sanitize") => stages[4] = Ran("sanitize", TRUE)
    /\ pc = "preprocess" =>
           \A before \in {CodeBeforeSanitize} :
               /\ Len(code) = Len(before)
               /\ \A i \in 1..Len(before) :
                      code[i] = IF before[i] = SURROGATE THEN SP ELSE before[i]
               /\ LET count == Cardinality({i \in 1..Len(before) : before[i] = SURROGATE})
                      unicode_check_result == _sanitize_unicode(before)
                  IN  /\ unicode_check_result.success
                      /\ count > 0 =>
                             /\ "warning" \in DOMAIN unicode_check_result
                             /\ unicode_check_result.warning[2] = count
                      /\ count = 0 => "warning" \notin DOMAIN unicode_check_result

\* C18 witness: the sanitizer has handed on a script that held a surrogate
C18_Witness ==
    /\ pc = "preprocess"
    /\ \E i \in 1..Len(Text) : Text[i] = SURROGATE
    /\ \A i \in 1..Len(code) : code[i] # SURROGATE

\* C19: the builtins mapping of every environment the builder has built holds none of
\* setattr, delattr, exec, eval, compile, open, input and __import__
C19_NoDangerousBuiltins ==
    HasRun("environment") =>
        /\ "__builtins__" \in DOMAIN execution_globals
        /\ execution_globals["__builtins__"].of
               \cap {"setattr", "delattr", "exec", "eval", "compile", "open", "input",
                     "__import__"} = {}

\* C19 witness: an environment has been built and its builtins hold getattr
C19_Witness ==
    /\ pc = "data_query"
    /\ "__builtins__" \in DOMAIN execution_globals
    /\ "getattr" \in execution_globals["__builtins__"].of

\* C20: a call of get_document, get_documents, search with a doctype, get_doctype_info,
\* generate_report or get_report_info asks the host nothing about its target before it
\* has checked the caller's read permission on it; when the check fails the call returns
\* success = false with an error and has asked nothing more; and list_reports returns
\* only reports the caller may read
C20_PermissionCheckedBeforeEveryRead ==
    /\ facade_call.op \notin {"", "list_reports"} =>
           /\ \A i \in 1..Len(facade_log) :
                  facade_log[i][1] # "has_permission" =>
                      \E j \in 1..(i - 1) :
                          facade_log[j] = <<"has_permission", facade_log[i][2]>>
           /\ (facade_call.target # "" /\ facade_call.target \notin facade_call.granted) =>
                  /\ facade_reply.success = FALSE
                  /\ "error" \in DOMAIN facade_reply
                  /\ facade_log[Len(facade_log)][1] = "has_permission"
    /\ facade_call.op = "list_reports" =>
           \A i \in 1..Len(facade_reply.reports) :
               facade_reply.reports[i].name \in facade_call.granted

\* C21: a result returned for a rejection by the scan, the import check or the sanitizer
\* has success = false and no execution_id, and a result that carries an execution_id
\* belongs to a request whose script reached the executor
C21_ExecutionIdOnlyFromExecutor ==
    Returned =>
        /\ (/\ stages # <<>>
            /\ ~stages[Len(stages)].passed
            /\ stages[Len(stages)].stage \in {"scan", "imports", "sanitize"}) =>
               /\ result.success = FALSE
               /\ "execution_id" \notin DOMAIN result
               /\ "execution_info" \notin DOMAIN result
        /\ ("execution_id" \in DOMAIN result \/ "execution_info" \in DOMAIN result) =>
               /\ HasRun("exec")
               /\ result.execution_info.execution_id = audit_info.execution_id

\* C21 witness: the scan has rejected a script
C21_Witness ==
    /\ Returned
    /\ stages = <<Ran("scan", FALSE)>>
    /\ result.success = FALSE
    /\ "execution_info" \notin DOMAIN result

\* C22: an adapter constructed with max_retries = N issues at most N + 1 HTTP attempts
\* for a request, and raises FrappeAPIError only after N + 1 attempts have failed
C22_AtMostNPlusOneAttempts ==
    adapter_call.op = "get_document" =>
        /\ adapter_call.http <= adapter.max_retries + 1
        /\ adapter_call.raised => adapter_call.http = adapter.max_retries + 1

\* C23: with the cache enabled, after a successful create_document, update_document or
\* delete_document on doctype D no cached GET response for a resource of D remains, and
\* the next get_document or search_documents on D makes a real request and returns what
\* the site holds after the write
C23_WriteInvalidatesCachedReads ==
    /\ (/\ adapter.enable_cache
        /\ adapter_call.op \in {"create_document", "update_document", "delete_document"}
        /\ ~adapter_call.raised) =>
           LET D == adapter_call.args.doctype
               docs == site.server[D]
               IsResourceOfD(key) ==
                   \E name \in {""} \cup {str(i) : i \in 1..(MaxDocs + 1)} :
                       \/ key = <<"GET", ":">> \o ResourcePath(D, name)
                       \/ StartsWith(key, <<"GET", ":">> \o ResourcePath(D, name) \o <<":">>)
           IN  /\ \A key \in DOMAIN adapter._cache : ~IsResourceOfD(key)
               /\ \A got \in {_make_request(adapter, site, "GET", D, "1", None, None, TRUE)} :
                      /\ got.http >= 1
                      /\ ~got.raised =>
                             \E i \in 1..Len(docs) : docs[i].name = "1"
                                                       /\ got.response.data = docs[i]
               /\ \A limit \in 1..2, offset \in 0..1 :
                      \A found \in {Paginate(adapter, site, D, limit, offset, <<>>, 0, 0)} :
                          /\ found.http >= 1
                          /\ found.response = SubSeq(docs, offset + 1, Len(docs))
    /\ (/\ adapter.enable_cache
        /\ adapter_call.op = "get_document"
        /\ ~adapter_call.raised) =>
           \E i \in 1..Len(site.server[adapter_call.args.doctype]) :
               adapter_call.response = site.server[adapter_call.args.doctype][i]
    /\ (/\ adapter.enable_cache
        /\ adapter_call.op = "search_documents"
        /\ adapter_call.args.auto_paginate
        /\ ~adapter_call.raised) =>
           adapter_call.response =
               SubSeq(site.server[adapter_call.args.doctype], adapter_call.args.offset + 1,
                      Len(site.server[adapter_call.args.doctype]))

\* C23 witness: an update of a Customer has deleted cached responses
C23_Witness ==
    /\ adapter.enable_cache
    /\ adapter_call.op = "update_document"
    /\ adapter_call.args.doctype = <<"Customer">>
    /\ ~adapter_call.raised
    /\ adapter_call.removed # {}

\* C24: with auto_paginate and limit >= 1, search_documents returns the documents from
\* the start offset to the end of the site's list, in order and each once, and stops at
\* the first page that is empty or shorter than limit
C24_PaginationReturnsTheTail ==
    (/\ adapter_call.op = "search_documents"
     /\ adapter_call.args.auto_paginate
     /\ ~adapter_call.raised) =>
        LET docs == site.server[adapter_call.args.doctype]
            rest == SubSeq(docs, adapter_call.args.offset + 1, Len(docs))
        IN  /\ adapter_call.response = rest
            /\ adapter_call.args.pages = Len(rest) \div adapter_call.args.limit + 1

\* C24 witness: the whole list fetched with limit 2, the last page short or empty
C24_Witness ==
    /\ adapter_call.op = "search_documents"
    /\ adapter_call.args.auto_paginate
    /\ adapter_call.args.limit = 2
    /\ adapter_call.args.offset = 0
    /\ ~adapter_call.raised
    /\ Len(adapter_call.response) = MaxDocs
    /\ adapter_call.args.pages >= 2

\* C25: batch_create_documents attempts the documents in input order; count =
\* len(created), errors = len(failed), count + errors = the number attempted; without
\* stop_on_error every document is attempted and a failed entry carries the index of
\* its document; with stop_on_error nothing is attempted after the first failure
C25_BatchCountsAndOrder ==
    adapter_call.op = "batch_create_documents" =>
        LET results == adapter_call.response
            documents == adapter_call.args.documents
            attempted == results.attempted
            failed_indexes == {results.failed[k].index : k \in 1..Len(results.failed)}
        IN  /\ results.count = Len(results.created)
            /\ results.errors = Len(results.failed)
            /\ results.count + results.errors = Len(attempted)
            /\ attempted = [k \in 1..Len(attempted) |-> k - 1]
            /\ Len(attempted) <= Len(documents)
            /\ Cardinality(failed_indexes) = Len(results.failed)
            /\ \A k \in 1..Len(results.failed) :
                   /\ results.failed[k].index \in 0..(Len(attempted) - 1)
                   /\ results.failed[k].data = documents[results.failed[k].index + 1]
            /\ ~adapter_call.args.stop_on_error => Len(attempted) = Len(documents)
            /\ adapter_call.args.stop_on_error =>
                   \A i \in failed_indexes : i = Len(attempted) - 1

\* C25 witness: a batch with stop_on_error has stopped before its last document
C25_Witness ==
    /\ adapter_call.op = "batch_create_documents"
    /\ adapter_call.args.stop_on_error
    /\ adapter_call.response.errors = 1
    /\ Len(adapter_call.response.attempted) < Len(adapter_call.args.documents)

\* C26: with the cache enabled _get_from_cache(k) returns the data stored under k if and
\* only if the entry was stored no longer than cache_ttl seconds ago; an expired entry is
\* not returned and the lookup removes it; with the cache disabled nothing is stored and
\* every lookup returns None; clear_cache leaves the cache empty
C26_CacheLookup ==
    /\ ~adapter.enable_cache => DOMAIN adapter._cache = {}
    /\ adapter_call.op = "clear_cache" => DOMAIN adapter._cache = {}
    /\ adapter_call.op = "_get_from_cache" =>
           LET asked == adapter_call.args
           IN  IF ~adapter.enable_cache \/ asked.entry = None
               THEN adapter_call.response = None
               ELSE IF asked.at - asked.stored_at <= adapter.cache_ttl
               THEN /\ adapter_call.response = asked.entry.data
                    /\ asked.cache_key \in DOMAIN adapter._cache
               ELSE /\ adapter_call.response = None
                    /\ asked.cache_key \notin DOMAIN adapter._cache
                    /\ adapter_call.removed = {asked.cache_key}

\* C26 witness: a lookup has found an expired entry
C26_Witness ==
    /\ adapter.enable_cache
    /\ adapter_call.op = "_get_from_cache"
    /\ adapter_call.args.entry # None
    /\ adapter_call.args.at - adapter_call.args.stored_at > adapter.cache_ttl
    /\ adapter_call.response = None

\* C27: for a prepared report the result of generate_report carries the status
\* "completed", "timeout" or "error" that matches the outcome of the background job, and
\* has success = false with the job's error message when the Prepared Report ended in
\* status Error
C27_ReportStatusMatchesJob ==
    (prepared.pc = "done" /\ prepared.handled # None) =>
        /\ "status" \in DOMAIN prepared.result
        /\ prepared.result.status = prepared.handled.status
        /\ prepared.observed = "Error" =>
               /\ prepared.result.success = FALSE
               /\ prepared.result.status = "error"
               /\ "error" \in DOMAIN prepared.result
        /\ prepared.result.status = "completed" => prepared.result.data # <<>>
        /\ prepared.result.status = "timeout" =>
               prepared.elapsed_time >= prepared.max_wait_time

\* C29: the polling loop returns at the first poll that observes the Prepared Report
\* Completed (status "completed") or in Error (status "error"), and otherwise returns
\* "timeout" once the accumulated wait has reached min(report timeout, 300) seconds; the
\* interval between polls starts at 2 s and never exceeds 15 s
C29_PollingReturnsAtFirstFinishedPoll ==
    prepared.pc # "idle" =>
        /\ prepared.observed = "Completed" =>
               /\ prepared.pc = "done"
               /\ prepared.handled.status = "completed"
        /\ prepared.observed = "Error" =>
               /\ prepared.pc = "done"
               /\ prepared.handled.status = "error"
        /\ (/\ prepared.pc = "done"
            /\ prepared.handled # None
            /\ prepared.handled.status = "timeout") =>
               /\ prepared.elapsed_time >= prepared.max_wait_time
               /\ prepared.max_wait_time = 16 * (IF prepared.report_timeout < 300
                                                 THEN prepared.report_timeout ELSE 300)
        /\ prepared.polls = 0 => prepared.poll_interval = 32
        /\ prepared.poll_interval \in 32..240

\* C28: whatever send_email, modify_email_draft and confirm_send_email calls are made on
\* one Communication, one after the other or two confirm_send_email at the same time, the
\* email is handed to sendmail at most once, and a confirm_send_email that starts when the
\* Communication has already been sent returns success = false and sends nothing
C28_SentAtMostOnce ==
    /\ Len(mail.outbox) <= 1
    /\ \A r \in Requests :
           (mail.request[r].pc # "idle" /\ "sent_before" \in DOMAIN mail.request[r]) =>
               mail.request[r].sent_before = 0

\* C30: when the MCP requests of one process are of different users, a tools/call of
\* user U is dispatched only to a tool of the list _import_tools registered for U's
\* request, and a tool of that list is never answered as not found
C30_DispatchWithinOwnTools ==
    \A r \in Requests :
        (/\ mcp.request[r].pc = "done"
         /\ \A q \in Requests \ {r} : mcp.request[q].user # mcp.request[r].user) =>
            /\ mcp.request[r].outcome = "called" =>
                   mcp.request[r].tool_name \in Range(mcp.request[r].available_tools)
            /\ mcp.request[r].outcome \in {"not found", "KeyError"} =>
                   mcp.request[r].tool_name \notin Range(mcp.request[r].available_tools)

=============================================================================
